---- MODULE Spec2Model ----
(***************************************************************************)
(* SASL AWS_MSK_IAM for librdkafka: the per-client credential handle, the  *)
(* STS credential refresh driven by the main thread's timer, and the       *)
(* per-connection authentication state machine run by the broker threads.  *)
(*                                                                         *)
(* C strings are tuples: <<text>> or <<format, arg, ...>>; NULL is the     *)
(* empty tuple.  Frames received from the broker are tuples of bytes.      *)
(* Wall-clock time (rd_uclock) is in microseconds.                         *)
(***************************************************************************)
EXTENDS Integers, Sequences, FiniteSets, TLC

(* ------------------------------------------------------------------ *)
(* Bounds of the model                                                 *)
(* ------------------------------------------------------------------ *)

\* Clock ticks (of TickUs each) after which the clock stops advancing.
MaxTicks == 2

\* Number of distinct credential sets the STS service hands out.
NumStsCreds == 2

\* The positive value of sasl.duration_sec tried by the model (seconds).
DurationSec == 10

\* The broker threads, each owning one transport.
Brokers == {"b1", "b2"}

(* ------------------------------------------------------------------ *)
(* Program constants                                                   *)
(* ------------------------------------------------------------------ *)

\* 10l * 1000 * 1000: the refresh interval after a failure, microseconds.
FailureRefreshIntervalUs == 10000000

UsPerMs == 1000

MsPerSec == 1000

UsPerSec == UsPerMs * MsPerSec

\* One clock tick of the model, microseconds.
TickUs == 10 * UsPerSec

T0 == TickUs

MaxNow == T0 + MaxTicks * TickUs

NULL == <<>>

Cstr(s) == <<s>>

RD_KAFKA_RESP_ERR_NO_ERROR == "RD_KAFKA_RESP_ERR_NO_ERROR"
RD_KAFKA_RESP_ERR_UNKNOWN == "RD_KAFKA_RESP_ERR_UNKNOWN"
RD_KAFKA_RESP_ERR__INVALID_ARG == "RD_KAFKA_RESP_ERR__INVALID_ARG"
RD_KAFKA_RESP_ERR__STATE == "RD_KAFKA_RESP_ERR__STATE"
RD_KAFKA_RESP_ERR__AUTHENTICATION == "RD_KAFKA_RESP_ERR__AUTHENTICATION"

RD_KAFKA_SASL_AWS_MSK_IAM_SEND_CLIENT_FIRST_MESSAGE == "SEND_CLIENT_FIRST_MESSAGE"
RD_KAFKA_SASL_AWS_MSK_IAM_RECEIVE_SERVER_RESPONSE == "RECEIVE_SERVER_RESPONSE"

(* ------------------------------------------------------------------ *)
(* State                                                               *)
(* ------------------------------------------------------------------ *)

VARIABLES
    conf,          \* rk->rk_conf.sasl
    rk_state,      \* life cycle of the client instance
    now,           \* the clock, microseconds
    handle,        \* rk->rk_sasl.handle: credential fields and errstr
    lock,          \* handle->lock: the writer flag and the set of readers
    tmr,           \* handle->credential_refresh_tmr
    mt,            \* the main thread: position and locals of the refresh
    bt,            \* the broker threads: position, transport state, results
    op_err,        \* error events emitted with rd_kafka_op_err
    wakeup_seq,    \* rd_kafka_all_brokers_wakeup calls, counted modulo 2
    expires_at,    \* history: expiry (us) of the credential last installed
    installed,     \* history: the credential last installed, or NULL
    rk_sasl_handle, \* rk->rk_sasl.handle: the pointer to the handle, or NULL
    tt,            \* the thread that tears the client down: its position
    aws,           \* a call of a function of rdkafka_aws.c: arguments, result
    libxml2,       \* the statics of the parsing section and the threads in it
    failed_since   \* history: the error last recorded since the last install

vars == <<conf, rk_state, now, handle, lock, tmr, mt, bt, op_err,
          wakeup_seq, expires_at, installed, rk_sasl_handle, tt, aws,
          libxml2, failed_since>>

(* ------------------------------------------------------------------ *)
(* Configuration                                                       *)
(* ------------------------------------------------------------------ *)

ConfSet ==
    [ enable_use_sts        : BOOLEAN,
      duration_sec          : {0, DurationSec},
      aws_access_key_id     : {NULL, Cstr("AKIA_CONF")},
      aws_secret_access_key : {NULL, Cstr("SECRET_CONF")},
      aws_region            : {NULL, Cstr("us-east-1")},
      role_arn              : {NULL, Cstr("arn:aws:iam::1:role/R")},
      role_session_name     : {NULL, Cstr("librdkafka_session")} ]

\* A faulty validation that asks for the role whether or not STS is used.
conf_validate_role_always(c) ==
    IF c.aws_access_key_id = NULL \/ c.aws_secret_access_key = NULL
       \/ c.aws_region = NULL
    THEN -1
    ELSE IF c.role_arn = NULL \/ c.role_session_name = NULL
    THEN -1
    ELSE 0

\* rd_kafka_sasl_aws_msk_iam_conf_validate: 0 or -1.
conf_validate(c) ==
    IF c.aws_access_key_id = NULL \/ c.aws_secret_access_key = NULL
       \/ c.aws_region = NULL
    THEN -1
    ELSE IF c.enable_use_sts
            /\ (c.role_arn = NULL \/ c.role_session_name = NULL)
    THEN -1
    ELSE 0

\* The error text rd_kafka_sasl_aws_msk_iam_conf_validate writes, NULL
\* where it writes none.
conf_validate_errstr(c) ==
    IF c.aws_access_key_id = NULL \/ c.aws_secret_access_key = NULL
       \/ c.aws_region = NULL
    THEN Cstr("sasl.aws_access_key_id, sasl.aws_secret_access_key, and sasl.aws_region must be set")
    ELSE IF c.enable_use_sts
            /\ (c.role_arn = NULL \/ c.role_session_name = NULL)
    THEN Cstr("sasl.enable_use_sts is true but missing sasl.role_arn or sasl.role_session_name")
    ELSE NULL

(* ------------------------------------------------------------------ *)
(* Values                                                              *)
(* ------------------------------------------------------------------ *)

NoCredential ==
    [ aws_access_key_id     |-> NULL,
      aws_secret_access_key |-> NULL,
      aws_region            |-> NULL,
      aws_security_token    |-> NULL,
      md_lifetime_ms        |-> 0 ]

CredFields(r) ==
    [ aws_access_key_id     |-> r.aws_access_key_id,
      aws_secret_access_key |-> r.aws_secret_access_key,
      aws_region            |-> r.aws_region,
      aws_security_token    |-> r.aws_security_token ]

\* The address of the handle, as rd_calloc returns it in init.
handle_ptr == Cstr("handle")

tt_idle == [pc |-> "idle"]

mt_idle ==
    [ pc            |-> "idle",
      handle        |-> NULL,
      credential    |-> NoCredential,
      errstr        |-> Cstr(""),
      error_changed |-> FALSE,
      now_wallclock |-> 0,
      resp          |-> NULL,
      signing       |-> NULL,
      ret           |-> RD_KAFKA_RESP_ERR_UNKNOWN ]

bt_idle ==
    [ pc        |-> "idle",
      state     |-> NULL,
      in        |-> NULL,
      out       |-> NULL,
      sends     |-> 0,
      ret       |-> 0,
      errstr    |-> NULL,
      auth_done |-> FALSE ]

Init ==
    /\ conf \in ConfSet
    /\ rk_state = "new"
    /\ now = T0
    /\ handle = NULL
    /\ lock = [writer |-> FALSE, readers |-> {}]
    /\ tmr = [started |-> FALSE, interval |-> 0, next |-> 0]
    /\ mt = mt_idle
    /\ bt = [b \in Brokers |-> bt_idle]
    /\ op_err = [seq |-> 0, err |-> RD_KAFKA_RESP_ERR_NO_ERROR, errstr |-> NULL]
    /\ wakeup_seq = 0
    /\ expires_at = 0
    /\ installed = NULL
    /\ rk_sasl_handle = NULL
    /\ tt = tt_idle
    /\ aws = NULL
    /\ libxml2 = NULL
    /\ failed_since = NULL

(* ------------------------------------------------------------------ *)
(* Timer                                                               *)
(* ------------------------------------------------------------------ *)

\* rd_kafka_timer_start(): a periodic timer, first due one interval from now.
rd_kafka_timer_start(interval) ==
    [started |-> TRUE, interval |-> interval, next |-> now + interval]

\* rd_kafka_timer_override_once(): the next fire only is moved.
rd_kafka_timer_override_once(t, interval) ==
    [t EXCEPT !.next = now + interval]

(* ------------------------------------------------------------------ *)
(* Lock                                                                *)
(* ------------------------------------------------------------------ *)

LockFree == ~lock.writer /\ lock.readers = {}

rwlock_wrlock == [lock EXCEPT !.writer = TRUE]

rwlock_wrunlock == [lock EXCEPT !.writer = FALSE]

rwlock_rdlock(b) == [lock EXCEPT !.readers = @ \cup {b}]

rwlock_rdunlock(b) == [lock EXCEPT !.readers = @ \ {b}]

(* ------------------------------------------------------------------ *)
(* Client construction                                                 *)
(* ------------------------------------------------------------------ *)

\* The client is constructed only if its configuration validates.
ConfValidate ==
    /\ rk_state = "new"
    /\ rk_state' = IF conf_validate(conf) = 0 THEN "validated"
                   ELSE "conf_invalid"
    /\ UNCHANGED <<conf, libxml2, failed_since, rk_sasl_handle, tt, aws, now, handle, lock, tmr, mt, bt, op_err,
                   wakeup_seq, expires_at, installed>>

\* A faulty init that leaves the first fire a whole interval away.
init_tmr_not_overridden ==
    IF conf.enable_use_sts /\ conf.duration_sec > 0
    THEN rd_kafka_timer_start(conf.duration_sec * 800 * 1000)
    ELSE tmr

\* A faulty init that starts the timer without asking for enable_use_sts.
init_tmr_without_sts ==
    IF conf.duration_sec > 0
    THEN rd_kafka_timer_override_once(
             rd_kafka_timer_start(conf.duration_sec * 800 * 1000), 0)
    ELSE tmr

\* A faulty init that starts the timer whatever duration_sec is.
init_tmr_any_duration ==
    IF conf.enable_use_sts
    THEN rd_kafka_timer_override_once(
             rd_kafka_timer_start(conf.duration_sec * 800 * 1000), 0)
    ELSE tmr

\* The refresh timer as rd_kafka_sasl_aws_msk_iam_init leaves it.
init_tmr ==
    IF conf.enable_use_sts /\ conf.duration_sec > 0
    THEN rd_kafka_timer_override_once(
             rd_kafka_timer_start(conf.duration_sec * 800 * 1000), 0)
    ELSE tmr

\* rd_kafka_sasl_aws_msk_iam_init, before any other thread of the client
\* runs: the write lock is taken and released within the step.
init ==
    /\ rk_state = "validated"
    /\ handle' = [ aws_access_key_id     |-> conf.aws_access_key_id,
                   aws_secret_access_key |-> conf.aws_secret_access_key,
                   aws_region            |-> conf.aws_region,
                   aws_security_token    |-> NULL,
                   errstr                |-> NULL ]
    /\ rk_sasl_handle' = handle_ptr
    /\ tmr' = init_tmr
    /\ rk_state' = "running"
    /\ UNCHANGED <<conf, libxml2, failed_since, tt, aws, now, lock, mt, bt, op_err, wakeup_seq,
                   expires_at, installed>>

(* ------------------------------------------------------------------ *)
(* The clock                                                           *)
(* ------------------------------------------------------------------ *)

\* Time passes, a tick at a time, while the main thread waits: for its
\* timer, for the answer of STS, or between reading the clock and writing
\* the handle in set_credential.  Its other steps take no time.
Tick ==
    /\ rk_state = "running"
    /\ mt.pc \in {"idle", "sts_request", "set_credential_locked"}
    /\ now + TickUs <= MaxNow
    /\ now' = now + TickUs
    /\ UNCHANGED <<conf, libxml2, failed_since, rk_sasl_handle, tt, aws, rk_state, handle, lock, tmr, mt, bt, op_err,
                   wakeup_seq, expires_at, installed>>

(* ------------------------------------------------------------------ *)
(* The STS service and the parsing of its responses                    *)
(* ------------------------------------------------------------------ *)

StsCredIds == 1..NumStsCreds

StsAccessKeyId(i) == <<"ASIA_STS", i>>

StsSecretAccessKey(i) == <<"SECRET_STS", i>>

StsSessionToken(i) == <<"TOKEN_STS", i>>

CredentialsChildren ==
    {"AccessKeyId", "SecretAccessKey", "SessionToken", "Expiration"}

\* What the HTTPS request to STS may come back with: a transport error, a
\* body that is no XML document, an ErrorResponse, or an AssumeRoleResponse
\* (complete, or lacking the Credentials element or one of its children).
StsResponses ==
    { [kind |-> k, id |-> 1, missing |-> "none", expiration |-> "future",
       message |-> IF k = "ErrorResponse" THEN Cstr("AccessDenied") ELSE NULL]
        : k \in {"curl_error", "not_xml", "ErrorResponse"} }
    \cup
    { [kind |-> "ErrorResponse", id |-> 1, missing |-> "Message",
       expiration |-> "future", message |-> NULL] }
    \cup
    { [kind |-> "AssumeRoleResponse", id |-> i, missing |-> "none",
       expiration |-> e, message |-> NULL]
        : i \in StsCredIds, e \in {"future", "expired", "unparseable"} }
    \cup
    { [kind |-> "AssumeRoleResponse", id |-> 1, missing |-> m,
       expiration |-> "future", message |-> NULL]
        : m \in CredentialsChildren \cup {"Credentials"} }

\* The Expiration element of a response as seconds since the epoch (mktime).
ExpirationEpochSec(resp) ==
    IF resp.expiration = "future"
    THEN now \div UsPerSec + conf.duration_sec
    ELSE now \div UsPerSec

Has(resp, child) == resp.missing \notin {"Credentials", child}

\* A faulty loop that leaves no expiry when Expiration gives none.
ParseCredentials_no_fallback(credential, resp) ==
    [ aws_access_key_id |->
          IF Has(resp, "AccessKeyId") THEN StsAccessKeyId(resp.id)
          ELSE credential.aws_access_key_id,
      aws_secret_access_key |->
          IF Has(resp, "SecretAccessKey") THEN StsSecretAccessKey(resp.id)
          ELSE credential.aws_secret_access_key,
      aws_region |-> credential.aws_region,
      aws_security_token |->
          IF Has(resp, "SessionToken") THEN StsSessionToken(resp.id)
          ELSE credential.aws_security_token,
      md_lifetime_ms |->
          IF /\ Has(resp, "Expiration")
             /\ resp.expiration # "unparseable"
             /\ ExpirationEpochSec(resp) > 0
          THEN ExpirationEpochSec(resp) * 1000
          ELSE 0 ]

\* The loop over the children of Credentials in rd_kafka_aws_send_request.
ParseCredentials(credential, resp) ==
    [ aws_access_key_id |->
          IF Has(resp, "AccessKeyId") THEN StsAccessKeyId(resp.id)
          ELSE credential.aws_access_key_id,
      aws_secret_access_key |->
          IF Has(resp, "SecretAccessKey") THEN StsSecretAccessKey(resp.id)
          ELSE credential.aws_secret_access_key,
      aws_region |-> credential.aws_region,
      aws_security_token |->
          IF Has(resp, "SessionToken") THEN StsSessionToken(resp.id)
          ELSE credential.aws_security_token,
      md_lifetime_ms |->
          IF /\ Has(resp, "Expiration")
             /\ resp.expiration # "unparseable"
             /\ ExpirationEpochSec(resp) > 0
          THEN ExpirationEpochSec(resp) * 1000
          ELSE credential.md_lifetime_ms ]

\* A faulty parser that goes through an ErrorResponse as it does through an
\* AssumeRoleResponse.
rd_kafka_aws_send_request_error_parsed(credential, resp, errbuf) ==
    [ ret        |-> IF resp.kind \in {"AssumeRoleResponse", "ErrorResponse"}
                     THEN RD_KAFKA_RESP_ERR_NO_ERROR
                     ELSE RD_KAFKA_RESP_ERR_UNKNOWN,
      credential |-> IF resp.kind \in {"AssumeRoleResponse", "ErrorResponse"}
                     THEN ParseCredentials(credential, resp)
                     ELSE credential,
      errbuf     |-> errbuf ]

\* rd_kafka_aws_send_request from curl_easy_perform on: the return value, the
\* credential as filled in, and the error buffer.  An ErrorResponse leaves
\* the content of its Error/Message in the buffer, if it has one.
rd_kafka_aws_send_request(credential, resp, errbuf) ==
    LET ret == IF resp.kind = "AssumeRoleResponse"
                  /\ resp.missing # "Credentials"
               THEN RD_KAFKA_RESP_ERR_NO_ERROR
               ELSE RD_KAFKA_RESP_ERR_UNKNOWN
        buf == CASE resp.kind = "curl_error" ->
                        Cstr("curl: (7) Couldn't connect to server")
                 [] resp.kind = "ErrorResponse" /\ resp.message # NULL ->
                        resp.message
                 [] OTHER -> errbuf
    IN [ ret        |-> ret,
         credential |-> IF ret = RD_KAFKA_RESP_ERR_NO_ERROR
                        THEN ParseCredentials(credential, resp)
                        ELSE credential,
         errbuf     |-> IF ret # RD_KAFKA_RESP_ERR_NO_ERROR /\ buf = Cstr("")
                        THEN Cstr("AWS send request: unknown error")
                        ELSE buf ]

(* ------------------------------------------------------------------ *)
(* The main thread: timer callback and credential refresh              *)
(* ------------------------------------------------------------------ *)

\* rd_kafka_aws_msk_iam_credential_refresh, entered by the main thread m:
\* with enable_use_sts it goes into credential_refresh0, else it returns.
credential_refresh(m) ==
    IF conf.enable_use_sts
    THEN [m EXCEPT !.pc = "refresh0", !.handle = rk_sasl_handle]
    ELSE m

\* The timer is due: rd_kafka_sasl_aws_msk_iam_credential_refresh_tmr_cb
\* runs rd_kafka_aws_msk_iam_credential_refresh, which does nothing unless
\* enable_use_sts is set.  The timer is periodic.
credential_refresh_tmr_cb ==
    /\ rk_state = "running"
    /\ mt.pc = "idle"
    /\ tmr.started
    /\ now >= tmr.next
    /\ tmr' = [tmr EXCEPT !.next = now + tmr.interval]
    /\ mt' = credential_refresh(mt)
    /\ UNCHANGED <<conf, libxml2, failed_since, rk_sasl_handle, tt, aws, rk_state, now, handle, lock, bt, op_err,
                   wakeup_seq, expires_at, installed>>

\* &handle->lock with handle NULL is undefined: the process is killed, or
\* goes on in a way the program does not determine.
null_handle_outcomes == {"crashed", "undefined"}

\* rd_kafka_aws_msk_iam_credential_refresh0: rwlock_wrlock on the handle
\* read from rk->rk_sasl.handle on entry, which is not checked for NULL.
credential_refresh0_wrlock ==
    /\ rk_state = "running"
    /\ mt.pc = "refresh0"
    /\ IF mt.handle = NULL
       THEN /\ rk_state' \in null_handle_outcomes
            /\ UNCHANGED <<lock, mt>>
       ELSE /\ LockFree
            /\ lock' = rwlock_wrlock
            /\ mt' = [mt EXCEPT !.pc = "refresh0_locked"]
            /\ rk_state' = rk_state
    /\ UNCHANGED <<conf, libxml2, failed_since, rk_sasl_handle, tt, aws, now, handle, tmr, bt,
                   op_err, wakeup_seq, expires_at, installed>>

\* The credential as refresh0 prepares it before the request: the region of
\* the configuration and the lifetime now + duration_sec.
refresh0_credential ==
    [ NoCredential EXCEPT
        !.aws_region = conf.aws_region,
        !.md_lifetime_ms = now \div UsPerMs + conf.duration_sec * MsPerSec ]

\* A faulty refresh that signs with the credential of the handle.
refresh0_signing_from_handle ==
    [ aws_access_key_id     |-> handle.aws_access_key_id,
      aws_secret_access_key |-> handle.aws_secret_access_key,
      aws_region            |-> handle.aws_region ]

\* The access key, the secret and the region that refresh0 copies under the
\* lock and hands to rd_kafka_aws_send_request to sign the request with.
refresh0_signing ==
    [ aws_access_key_id     |-> conf.aws_access_key_id,
      aws_secret_access_key |-> conf.aws_secret_access_key,
      aws_region            |-> conf.aws_region ]

\* A faulty refresh that keeps the write lock while the request is built
\* and sent.
credential_refresh0_send_lock_held(l) == l

\* The lock as refresh0 leaves it once the configuration is copied, before
\* the request is built and sent.
credential_refresh0_send_lock(l) == rwlock_wrunlock

\* rd_kafka_aws_msk_iam_credential_refresh0: the configuration is copied,
\* the lock released, the request built and sent.
credential_refresh0_send ==
    /\ rk_state = "running"
    /\ mt.pc = "refresh0_locked"
    /\ lock' = credential_refresh0_send_lock(lock)
    /\ mt' = [mt EXCEPT !.pc = "sts_request",
                        !.signing = refresh0_signing,
                        !.credential = refresh0_credential]
    /\ UNCHANGED <<conf, libxml2, failed_since, rk_sasl_handle, tt, aws, rk_state, now, handle, tmr, bt, op_err,
                   wakeup_seq, expires_at, installed>>

\* rd_kafka_aws_send_request returns; credential_refresh goes on to
\* set_credential or to set_credential_failure.
credential_refresh0_return ==
    /\ rk_state = "running"
    /\ mt.pc = "sts_request"
    /\ \E resp \in StsResponses :
         LET r == rd_kafka_aws_send_request(mt.credential, resp, mt.errstr)
         IN mt' = [mt EXCEPT
                     !.resp = resp,
                     !.ret = r.ret,
                     !.credential = r.credential,
                     !.errstr = r.errbuf,
                     !.pc = IF r.ret = RD_KAFKA_RESP_ERR_NO_ERROR
                            THEN "set_credential"
                            ELSE "set_credential_failure"]
    /\ UNCHANGED <<conf, libxml2, failed_since, rk_sasl_handle, tt, aws, rk_state, now, handle, lock, tmr, bt, op_err,
                   wakeup_seq, expires_at, installed>>

(* ------------------------------------------------------------------ *)
(* rd_kafka_aws_msk_iam_set_credential                                 *)
(* ------------------------------------------------------------------ *)

\* wts_md_lifetime: the expiry of the credential in microseconds.
wts_md_lifetime(credential) == credential.md_lifetime_ms * 1000

\* A faulty check that lets through an expiry equal to the clock reading.
set_credential_expired_strict(wts, now_wallclock) == wts < now_wallclock

\* The argument check: an expiry that is not in the future is refused.
set_credential_expired(wts, now_wallclock) == wts <= now_wallclock

ErrUnexpired(now_wallclock, wts) ==
    << "Must supply an unexpired token: now=%ms, exp=%ms",
       now_wallclock \div 1000, wts \div 1000 >>

\* A faulty interval: the whole of the remaining lifetime.
set_credential_interval_whole(wts, now_wallclock) == wts - now_wallclock

\* A faulty interval that divides before it multiplies.
set_credential_interval_div_first(wts, now_wallclock) ==
    ((wts - now_wallclock) \div 10) * 8

\* The refresh interval: 80% of the remaining lifetime.
set_credential_interval(wts, now_wallclock) ==
    ((wts - now_wallclock) * 8) \div 10

\* rk->rk_sasl.handle is read; without a handle the call returns
\* RD_KAFKA_RESP_ERR__STATE.  The arguments are checked against rd_uclock();
\* a refused credential returns RD_KAFKA_RESP_ERR__INVALID_ARG, else the
\* write lock is taken.
set_credential_enter ==
    /\ rk_state = "running"
    /\ mt.pc = "set_credential"
    /\ \/ /\ rk_sasl_handle = NULL
          /\ mt' = [mt EXCEPT
                      !.handle = NULL,
                      !.errstr = Cstr("SASL/AWS_MSK_IAM is not the configured authentication mechanism"),
                      !.ret = RD_KAFKA_RESP_ERR__STATE,
                      !.pc = "set_credential_failure"]
          /\ lock' = lock
       \/ /\ rk_sasl_handle # NULL
          /\ set_credential_expired(wts_md_lifetime(mt.credential), now)
          /\ mt' = [mt EXCEPT
                      !.handle = rk_sasl_handle,
                      !.errstr = ErrUnexpired(now,
                                     wts_md_lifetime(mt.credential)),
                      !.ret = RD_KAFKA_RESP_ERR__INVALID_ARG,
                      !.pc = "set_credential_failure"]
          /\ lock' = lock
       \/ /\ rk_sasl_handle # NULL
          /\ ~set_credential_expired(wts_md_lifetime(mt.credential), now)
          /\ LockFree
          /\ lock' = rwlock_wrlock
          /\ mt' = [mt EXCEPT !.handle = rk_sasl_handle,
                              !.now_wallclock = now,
                              !.pc = "set_credential_write"]
    /\ UNCHANGED <<conf, libxml2, failed_since, rk_sasl_handle, tt, aws, rk_state, now, handle, tmr, bt, op_err,
                   wakeup_seq, expires_at, installed>>

\* rd_strdup(NULL) is undefined: the process aborts, or NULL is stored.
rd_strdup_outcomes(credential) ==
    IF credential.aws_access_key_id = NULL
       \/ credential.aws_secret_access_key = NULL
       \/ credential.aws_region = NULL
    THEN {"abort", "null"}
    ELSE {"defined"}

\* A faulty set_credential that lets go of the write lock between the
\* fields.
set_credential_write_lock_released(l) == [l EXCEPT !.writer = FALSE]

\* The write lock is held from the first field written to the last.
set_credential_write_lock(l) == l

\* Under the write lock: the access key and the secret replace the
\* handle's, unless rd_strdup(NULL) aborts; the region and the token are
\* yet to be written.
set_credential_write ==
    /\ rk_state = "running"
    /\ mt.pc = "set_credential_write"
    /\ \E outcome \in rd_strdup_outcomes(mt.credential) :
         IF outcome = "abort"
         THEN /\ rk_state' = "crashed"
              /\ UNCHANGED <<handle, lock, mt>>
         ELSE /\ handle' = [ handle EXCEPT
                               !.aws_access_key_id =
                                   mt.credential.aws_access_key_id,
                               !.aws_secret_access_key =
                                   mt.credential.aws_secret_access_key ]
              /\ lock' = set_credential_write_lock(lock)
              /\ mt' = [mt EXCEPT !.pc = "set_credential_locked"]
              /\ rk_state' = rk_state
    /\ UNCHANGED <<conf, libxml2, failed_since, rk_sasl_handle, tt, aws, now, tmr, bt, op_err, wakeup_seq, expires_at,
                   installed>>

\* A faulty write that leaves the handle's security token as it was.
set_credential_handle_keeps_token(credential) ==
    [ aws_access_key_id     |-> credential.aws_access_key_id,
      aws_secret_access_key |-> credential.aws_secret_access_key,
      aws_region            |-> credential.aws_region,
      aws_security_token    |-> handle.aws_security_token,
      errstr                |-> NULL ]

\* A faulty write that leaves the handle's last error as it was.
set_credential_handle_keeps_errstr(credential) ==
    [ aws_access_key_id     |-> credential.aws_access_key_id,
      aws_secret_access_key |-> credential.aws_secret_access_key,
      aws_region            |-> credential.aws_region,
      aws_security_token    |-> credential.aws_security_token,
      errstr                |-> handle.errstr ]

\* The fields of the handle as set_credential writes them.
set_credential_handle(credential) ==
    [ aws_access_key_id     |-> credential.aws_access_key_id,
      aws_secret_access_key |-> credential.aws_secret_access_key,
      aws_region            |-> credential.aws_region,
      aws_security_token    |-> credential.aws_security_token,
      errstr                |-> NULL ]

\* Still under the write lock: the region and the token are written, which
\* completes the credential in the handle; the timer is restarted, the
\* error is cleared, and the lock is released.
set_credential_locked ==
    /\ rk_state = "running"
    /\ mt.pc = "set_credential_locked"
    /\ handle' = set_credential_handle(mt.credential)
    /\ tmr' = rd_kafka_timer_start(
                  set_credential_interval(wts_md_lifetime(mt.credential),
                                          mt.now_wallclock))
    /\ lock' = rwlock_wrunlock
    /\ mt' = [mt EXCEPT !.pc = "set_credential_wakeup"]
    /\ expires_at' = wts_md_lifetime(mt.credential)
    /\ installed' = CredFields(mt.credential)
    /\ failed_since' = NULL
    /\ UNCHANGED <<conf, libxml2, rk_sasl_handle, tt, aws, rk_state, now, bt, op_err, wakeup_seq>>

\* After the unlock: rd_kafka_all_brokers_wakeup, return NO_ERROR; the
\* refresh frees its credential and returns.
set_credential_wakeup ==
    /\ rk_state = "running"
    /\ mt.pc = "set_credential_wakeup"
    /\ wakeup_seq' = 1 - wakeup_seq
    /\ mt' = mt_idle
    /\ UNCHANGED <<conf, libxml2, failed_since, rk_sasl_handle, tt, aws, rk_state, now, handle, lock, tmr, bt, op_err,
                   expires_at, installed>>

(* ------------------------------------------------------------------ *)
(* rd_kafka_aws_msk_iam_set_credential_failure                         *)
(* ------------------------------------------------------------------ *)

\* rk->rk_sasl.handle is read; without a handle the call returns, else
\* rwlock_wrlock.
set_credential_failure_wrlock ==
    /\ rk_state = "running"
    /\ mt.pc = "set_credential_failure"
    /\ IF rk_sasl_handle = NULL
       THEN /\ lock' = lock
            /\ mt' = mt_idle
       ELSE /\ LockFree
            /\ lock' = rwlock_wrlock
            /\ mt' = [mt EXCEPT !.handle = rk_sasl_handle,
                                !.pc = "set_credential_failure_locked"]
    /\ UNCHANGED <<conf, libxml2, failed_since, rk_sasl_handle, tt, aws, rk_state, now, handle, tmr, bt, op_err,
                   wakeup_seq, expires_at, installed>>

\* A faulty comparison that takes every error for a new one.
error_changed_always(old, errstr) == TRUE

\* error_changed = !handle->errstr || strcmp(handle->errstr, errstr)
error_changed(old, errstr) == old = NULL \/ old # errstr

\* A faulty failure path that also drops the security token.
set_credential_failure_handle_drops_token(h, errstr) ==
    [h EXCEPT !.errstr = errstr, !.aws_security_token = NULL]

\* The handle as set_credential_failure leaves it.
set_credential_failure_handle(h, errstr) == [h EXCEPT !.errstr = errstr]

\* A faulty restart that leaves a running timer alone.
set_credential_failure_tmr_if_stopped(t) ==
    IF t.started THEN t ELSE rd_kafka_timer_start(FailureRefreshIntervalUs)

\* The timer as set_credential_failure restarts it, whatever it was.
set_credential_failure_tmr(t) ==
    rd_kafka_timer_start(FailureRefreshIntervalUs)

\* Under the write lock: the timer is restarted 10 s out; an empty errstr
\* returns at once; else the error is compared and stored.
set_credential_failure_locked ==
    /\ rk_state = "running"
    /\ mt.pc = "set_credential_failure_locked"
    /\ tmr' = set_credential_failure_tmr(tmr)
    /\ lock' = rwlock_wrunlock
    /\ IF mt.errstr = NULL \/ mt.errstr = Cstr("")
       THEN /\ mt' = mt_idle
            /\ handle' = handle
            /\ failed_since' = failed_since
       ELSE /\ mt' = [mt EXCEPT
                        !.error_changed =
                            error_changed(handle.errstr, mt.errstr),
                        !.pc = "set_credential_failure_op_err"]
            /\ handle' = set_credential_failure_handle(handle, mt.errstr)
            /\ failed_since' = mt.errstr
    /\ UNCHANGED <<conf, libxml2, rk_sasl_handle, tt, aws, rk_state, now, bt, op_err, wakeup_seq,
                   expires_at, installed>>

\* After the unlock: rd_kafka_op_err if the error changed.
set_credential_failure_op_err ==
    /\ rk_state = "running"
    /\ mt.pc = "set_credential_failure_op_err"
    /\ op_err' = IF mt.error_changed
                 THEN [ seq    |-> 1 - op_err.seq,
                        err    |-> RD_KAFKA_RESP_ERR__AUTHENTICATION,
                        errstr |-> << "Failed to acquire SASL AWS_MSK_IAM credential: %s",
                                      mt.errstr >> ]
                 ELSE op_err
    /\ mt' = mt_idle
    /\ UNCHANGED <<conf, libxml2, failed_since, rk_sasl_handle, tt, aws, rk_state, now, handle, lock, tmr, bt, wakeup_seq,
                   expires_at, installed>>

(* ------------------------------------------------------------------ *)
(* The broker threads: per-connection authentication                   *)
(* ------------------------------------------------------------------ *)

\* rd_chariov_t: the bytes and their number.
rd_chariov(bytes) == [ptr |-> bytes, size |-> Len(bytes)]

\* Frames the broker may answer with: no bytes, or some bytes.
ServerFrames == { rd_chariov(<<>>), rd_chariov(<<123, 125>>) }

Hostname(b) == <<"hostname", b>>

\* rd_calloc(1, sizeof(*state)) with state->state set.
state_calloc ==
    [ state                 |-> RD_KAFKA_SASL_AWS_MSK_IAM_SEND_CLIENT_FIRST_MESSAGE,
      md                    |-> NULL,
      hostname              |-> NULL,
      aws_access_key_id     |-> NULL,
      aws_secret_access_key |-> NULL,
      aws_region            |-> NULL,
      aws_security_token    |-> NULL ]

\* rd_kafka_sasl_aws_msk_iam_client_new: the state is allocated and attached
\* to the transport, then the read lock is taken.
client_new_rdlock(b) ==
    /\ rk_state = "running"
    /\ bt[b].pc = "idle"
    /\ ~lock.writer
    /\ lock' = rwlock_rdlock(b)
    /\ bt' = [bt EXCEPT ![b].state = state_calloc,
                        ![b].pc = "client_new_locked"]
    /\ UNCHANGED <<conf, libxml2, failed_since, rk_sasl_handle, tt, aws, rk_state, now, handle, tmr, mt, op_err,
                   wakeup_seq, expires_at, installed>>

\* The two checks made under the read lock.
no_credentials(h) ==
    h.aws_access_key_id = NULL \/ h.aws_secret_access_key = NULL
    \/ h.aws_region = NULL

\* A faulty check that never asks for the security token.
no_security_token_unchecked(h) == FALSE

no_security_token(h) == conf.enable_use_sts /\ h.aws_security_token = NULL

last_error(h) == IF h.errstr # NULL THEN h.errstr ELSE Cstr("(not available)")

\* The copy of the handle's credential into the state.
client_new_copy(st, h, hostname) ==
    [ st EXCEPT
        !.md                    = Cstr("SHA256"),
        !.hostname              = hostname,
        !.aws_access_key_id     = h.aws_access_key_id,
        !.aws_secret_access_key = h.aws_secret_access_key,
        !.aws_region            = h.aws_region,
        !.aws_security_token    = h.aws_security_token ]

\* A faulty client_new that returns -1 with the read lock still held.
client_new_failure_lock_kept(l, b) == l

\* The lock l as client_new leaves it when it returns -1 from one of its
\* two checks.
client_new_failure_lock(l, b) == rwlock_rdunlock(b)

\* Under the read lock: without credentials the call returns -1;
\* otherwise the credential is copied.  The lock is released.
client_new_locked(b) ==
    /\ rk_state = "running"
    /\ bt[b].pc = "client_new_locked"
    /\ lock' = IF no_credentials(handle) \/ no_security_token(handle)
               THEN client_new_failure_lock(lock, b)
               ELSE rwlock_rdunlock(b)
    /\ bt' = [bt EXCEPT ![b] =
          IF no_credentials(handle)
          THEN [@ EXCEPT
                  !.errstr = << "AWS_MSK_IAM cannot log in because there is no credentials available; last error: %s",
                                last_error(handle) >>,
                  !.ret = -1,
                  !.pc = "failed"]
          ELSE IF no_security_token(handle)
          THEN [@ EXCEPT
                  !.errstr = << "AWS_MSK_IAM_STS cannot authenticate; last error: %s",
                                last_error(handle) >>,
                  !.ret = -1,
                  !.pc = "failed"]
          ELSE [@ EXCEPT
                  !.state = client_new_copy(@, handle, Hostname(b)),
                  !.pc = "client_new_fsm"]]
    /\ UNCHANGED <<conf, libxml2, failed_since, rk_sasl_handle, tt, aws, rk_state, now, handle, tmr, mt, op_err,
                   wakeup_seq, expires_at, installed>>

\* A faulty builder that reads the credential from the handle, not from the
\* state of the connection.
build_client_first_message_from_handle(st) ==
    [ host                  |-> st.hostname,
      aws_access_key_id     |-> handle.aws_access_key_id,
      aws_secret_access_key |-> handle.aws_secret_access_key,
      aws_region            |-> handle.aws_region,
      aws_security_token    |-> handle.aws_security_token ]

\* rd_kafka_sasl_aws_msk_iam_build_client_first_message: what of the state
\* goes into the payload and its signature.
build_client_first_message(st) ==
    [ host                  |-> st.hostname,
      aws_access_key_id     |-> st.aws_access_key_id,
      aws_secret_access_key |-> st.aws_secret_access_key,
      aws_region            |-> st.aws_region,
      aws_security_token    |-> st.aws_security_token ]

\* A faulty state machine that builds a client message in either state.
fsm_out_in_either_state(st) == build_client_first_message(st)

\* rd_kafka_sasl_aws_msk_iam_fsm: the message to send, which is built in
\* SEND_CLIENT_FIRST_MESSAGE only; in RECEIVE_SERVER_RESPONSE out.ptr stays
\* NULL and nothing is sent.
fsm_out(st) ==
    IF st.state = RD_KAFKA_SASL_AWS_MSK_IAM_SEND_CLIENT_FIRST_MESSAGE
    THEN build_client_first_message(st)
    ELSE NULL

\* The number of rd_kafka_sasl_send calls after a step that had out to send.
fsm_sends(n, out) == IF out # NULL THEN n + 1 ELSE n

\* rd_kafka_sasl_aws_msk_iam_fsm with no server input, as client_new calls
\* it: the first message is built and handed to rd_kafka_sasl_send, whose
\* result is returned.
fsm_send_client_first_message(b) ==
    /\ rk_state = "running"
    /\ bt[b].pc = "client_new_fsm"
    /\ bt[b].state.state = RD_KAFKA_SASL_AWS_MSK_IAM_SEND_CLIENT_FIRST_MESSAGE
    /\ \E r \in {0, -1} :
         bt' = [bt EXCEPT
                  ![b].out = fsm_out(bt[b].state),
                  ![b].sends = fsm_sends(@, fsm_out(bt[b].state)),
                  ![b].state.state =
                      RD_KAFKA_SASL_AWS_MSK_IAM_RECEIVE_SERVER_RESPONSE,
                  ![b].ret = r,
                  ![b].errstr = IF r = 0 THEN @ ELSE Cstr("send failed"),
                  ![b].pc = IF r = 0 THEN "await" ELSE "failed"]
    /\ UNCHANGED <<conf, libxml2, failed_since, rk_sasl_handle, tt, aws, rk_state, now, handle, lock, tmr, mt, op_err,
                   wakeup_seq, expires_at, installed>>

\* A faulty response handler that takes the empty frame for success.
handle_server_response_empty_ok(in) == IF in.size = 0 THEN 0 ELSE -1

\* rd_kafka_sasl_aws_msk_iam_handle_server_response: the return value.
handle_server_response(in) == IF in.size # 0 THEN 0 ELSE -1

\* A faulty transport that goes on handing frames to recv for as long as
\* the state is attached.
sasl_frame_expected_while_attached(c) ==
    c.pc \in {"await", "authenticated", "failed"} /\ c.state # NULL

\* The SASL framework hands a frame of the broker to recv only while the
\* authentication is pending: after rd_kafka_sasl_auth_done, or after an
\* error return, the transport takes no further frame to the mechanism.
sasl_frame_expected(c) == c.pc = "await"

\* rd_kafka_sasl_aws_msk_iam_recv: a frame from the broker goes through the
\* state machine to handle_server_response.
recv(b) ==
    /\ rk_state = "running"
    /\ sasl_frame_expected(bt[b])
    /\ bt[b].state.state = RD_KAFKA_SASL_AWS_MSK_IAM_RECEIVE_SERVER_RESPONSE
    /\ \E in \in ServerFrames :
         LET out == fsm_out(bt[b].state)
             sent == [bt[b] EXCEPT
                        !.out = IF out # NULL THEN out ELSE @,
                        !.sends = fsm_sends(@, out)]
         IN bt' = [bt EXCEPT ![b] =
            IF handle_server_response(in) = 0
            THEN [sent EXCEPT !.in = in, !.ret = 0, !.auth_done = TRUE,
                              !.pc = "authenticated"]
            ELSE [sent EXCEPT
                    !.in = in, !.ret = -1,
                    !.errstr = << "SASL AWS MSK IAM authentication failed: Broker response: %s",
                                  in.ptr >>,
                    !.pc = "failed"]]
    /\ UNCHANGED <<conf, libxml2, failed_since, rk_sasl_handle, tt, aws, rk_state, now, handle, lock, tmr, mt, op_err,
                   wakeup_seq, expires_at, installed>>

\* A faulty pairing of client_new and close, in which the state shares its
\* strings with the handle: freeing them takes them from the handle too.
close_handle_shared(h, st) ==
    [ f \in DOMAIN h |->
        IF f \in DOMAIN st /\ st[f] # NULL /\ st[f] = h[f]
        THEN NULL ELSE h[f] ]

\* The handle after close has freed the strings of the state: they are
\* copies made with rd_strdup, the handle's own are not touched.
close_handle(h, st) == h

\* A faulty close that frees the state and leaves the transport's pointer
\* to it in place.
close_state_dangling(st) == st

\* rktrans->rktrans_sasl.state as close leaves it.
close_state(st) == NULL

\* rd_kafka_sasl_aws_msk_iam_close: without a state it returns at once;
\* else the state is detached from the transport and freed with its strings.
close(b) ==
    /\ rk_state = "running"
    /\ bt[b].pc \in {"idle", "await", "authenticated", "failed"}
    /\ IF bt[b].state = NULL
       THEN UNCHANGED <<handle, bt>>
       ELSE /\ handle' = close_handle(handle, bt[b].state)
            /\ bt' = [bt EXCEPT ![b] =
                        [bt_idle EXCEPT !.state = close_state(bt[b].state)]]
    /\ UNCHANGED <<conf, libxml2, failed_since, rk_sasl_handle, tt, aws, rk_state, now, lock, tmr,
                   mt, op_err, wakeup_seq, expires_at, installed>>

(* ------------------------------------------------------------------ *)
(* Teardown of the client                                              *)
(* ------------------------------------------------------------------ *)

\* rd_kafka_sasl_aws_msk_iam_term, run by the thread that destroys the
\* client: the handle is read and rk->rk_sasl.handle is set to NULL.
term_detach ==
    /\ rk_state = "running"
    /\ tt.pc = "idle"
    /\ rk_sasl_handle # NULL
    /\ rk_sasl_handle' = NULL
    /\ tt' = [tt EXCEPT !.pc = "timer_stop"]
    /\ UNCHANGED <<conf, libxml2, failed_since, aws, rk_state, now, handle, lock, tmr, mt, bt,
                   op_err, wakeup_seq, expires_at, installed>>

\* rd_kafka_timer_stop() returns once no fire of the timer is in flight.
rd_kafka_timer_stop_returns == mt.pc = "idle"

\* rd_kafka_timer_stop(.., 1): the timer is stopped.
term_timer_stop ==
    /\ rk_state = "running"
    /\ tt.pc = "timer_stop"
    /\ rd_kafka_timer_stop_returns
    /\ tmr' = [tmr EXCEPT !.started = FALSE]
    /\ tt' = [tt EXCEPT !.pc = "free"]
    /\ UNCHANGED <<conf, libxml2, failed_since, rk_sasl_handle, aws, rk_state, now, handle, lock,
                   mt, bt, op_err, wakeup_seq, expires_at, installed>>

\* The strings of the handle are freed, its lock is destroyed, and the
\* handle is freed.
term_free ==
    /\ rk_state = "running"
    /\ tt.pc = "free"
    /\ handle' = NULL
    /\ tt' = [tt EXCEPT !.pc = "done"]
    /\ rk_state' = "terminated"
    /\ UNCHANGED <<conf, libxml2, failed_since, rk_sasl_handle, aws, now, lock, tmr, mt, bt,
                   op_err, wakeup_seq, expires_at, installed>>

(* ------------------------------------------------------------------ *)
(* rdkafka_aws.c: the strings that are signed                          *)
(*                                                                     *)
(* Here a C string is the sequence of its pieces: a piece is a run of  *)
(* unreserved characters ("us-east-1") or one other character ("/").   *)
(* The empty string is Cstr("").                                       *)
(* ------------------------------------------------------------------ *)

\* curl_easy_escape on one piece: every character but the unreserved ones
\* (letters, digits, "-", ".", "_", "~") becomes %XX.
uri_escape(c) ==
    CASE c = ":" -> "%3A"
      [] c = "/" -> "%2F"
      [] c = "&" -> "%26"
      [] c = "=" -> "%3D"
      [] c = "+" -> "%2B"
      [] c = "*" -> "%2A"
      [] c = " " -> "%20"
      [] OTHER   -> c

\* rd_kafka_aws_uri_encode
rd_kafka_aws_uri_encode(in) == [i \in 1..Len(in) |-> uri_escape(in[i])]

\* rd_kafka_aws_construct_amz_date: "%sT%sZ"
rd_kafka_aws_construct_amz_date(ymd, hms) == ymd \o <<"T">> \o hms \o <<"Z">>

\* rd_kafka_aws_construct_credential_scope: "%s/%s/%s/aws4_request"
rd_kafka_aws_construct_credential_scope(ymd, aws_region, aws_service) ==
    ymd \o <<"/">> \o aws_region \o <<"/">> \o aws_service
        \o <<"/", "aws4_request">>

\* A faulty builder that puts the security token after the signed headers.
rd_kafka_aws_build_sasl_canonical_querystring_token_last(action, aws_access_key_id, aws_region, ymd, hms, aws_service, aws_security_token) ==
    LET credential == aws_access_key_id \o <<"/">>
                      \o rd_kafka_aws_construct_credential_scope(
                             ymd, aws_region, aws_service)
    IN <<"Action", "=">> \o rd_kafka_aws_uri_encode(action) \o <<"&">>
       \o <<"X-Amz-Algorithm", "=", "AWS4-HMAC-SHA256", "&">>
       \o <<"X-Amz-Credential", "=">>
       \o rd_kafka_aws_uri_encode(credential) \o <<"&">>
       \o <<"X-Amz-Date", "=">>
       \o rd_kafka_aws_uri_encode(rd_kafka_aws_construct_amz_date(ymd, hms))
       \o <<"&">>
       \o <<"X-Amz-Expires", "=", "900", "&">>
       \o <<"X-Amz-SignedHeaders", "=", "host">>
       \o (IF aws_security_token # NULL
           THEN <<"&", "X-Amz-Security-Token", "=">>
                \o rd_kafka_aws_uri_encode(aws_security_token)
           ELSE <<>>)

\* rd_kafka_aws_build_sasl_canonical_querystring
rd_kafka_aws_build_sasl_canonical_querystring(action, aws_access_key_id, aws_region, ymd, hms, aws_service, aws_security_token) ==
    LET uri_action == rd_kafka_aws_uri_encode(action)
        credential_scope == rd_kafka_aws_construct_credential_scope(
                                ymd, aws_region, aws_service)
        credential == aws_access_key_id \o <<"/">> \o credential_scope
        uri_credential == rd_kafka_aws_uri_encode(credential)
        amz_date == rd_kafka_aws_construct_amz_date(ymd, hms)
        uri_amz_date == rd_kafka_aws_uri_encode(amz_date)
    IN <<"Action", "=">> \o uri_action \o <<"&">>
       \o <<"X-Amz-Algorithm", "=", "AWS4-HMAC-SHA256", "&">>
       \o <<"X-Amz-Credential", "=">> \o uri_credential \o <<"&">>
       \o <<"X-Amz-Date", "=">> \o uri_amz_date \o <<"&">>
       \o <<"X-Amz-Expires", "=", "900", "&">>
       \o (IF aws_security_token # NULL
           THEN <<"X-Amz-Security-Token", "=">>
                \o rd_kafka_aws_uri_encode(aws_security_token) \o <<"&">>
           ELSE <<>>)
       \o <<"X-Amz-SignedHeaders", "=", "host">>

\* A call of rd_kafka_aws_build_sasl_canonical_querystring returns.
build_sasl_canonical_querystring_call ==
    /\ aws # NULL
    /\ aws.pc = "call"
    /\ aws.fn = "rd_kafka_aws_build_sasl_canonical_querystring"
    /\ aws' = [aws EXCEPT
                 !.pc = "return",
                 !.ret = rd_kafka_aws_build_sasl_canonical_querystring(
                             aws.args.action, aws.args.aws_access_key_id,
                             aws.args.aws_region, aws.args.ymd, aws.args.hms,
                             aws.args.aws_service,
                             aws.args.aws_security_token)]
    /\ UNCHANGED <<conf, libxml2, failed_since, rk_sasl_handle, tt, rk_state, now, handle, lock,
                   tmr, mt, bt, op_err, wakeup_seq, expires_at, installed>>

\* The hexadecimal SHA-256 digest of data: one piece, and a different one
\* for different data.
sha256_hex(data) == << ToString(<<"sha256", data>>) >>

\* A faulty builder that puts the headers before the query string.
rd_kafka_aws_build_canonical_request_headers_first(method, canonical_query_string, canonical_headers, signed_headers, request_parameters) ==
    method \o <<"\n">> \o <<"/">> \o <<"\n">>
        \o canonical_headers \o <<"\n">>
        \o canonical_query_string \o <<"\n">>
        \o signed_headers \o <<"\n">>
        \o sha256_hex(request_parameters)

\* rd_kafka_aws_build_canonical_request
rd_kafka_aws_build_canonical_request(method, canonical_query_string, canonical_headers, signed_headers, request_parameters) ==
    LET payload_hash == sha256_hex(request_parameters)
    IN method \o <<"\n">> \o <<"/">> \o <<"\n">>
           \o canonical_query_string \o <<"\n">>
           \o canonical_headers \o <<"\n">>
           \o signed_headers \o <<"\n">>
           \o payload_hash

\* The arguments with which rd_kafka_aws_build_sasl_payload, called by
\* rd_kafka_sasl_aws_msk_iam_build_client_first_message for the state st at
\* the date ymd, hms, calls rd_kafka_aws_build_canonical_request.
build_client_first_message_args(st, ymd, hms) ==
    [ method |-> <<"GET">>,
      canonical_query_string |->
          rd_kafka_aws_build_sasl_canonical_querystring(
              <<"kafka-cluster", ":", "Connect">>, st.aws_access_key_id,
              st.aws_region, ymd, hms, <<"kafka-cluster">>,
              st.aws_security_token),
      canonical_headers |-> <<"host", ":">> \o st.hostname \o <<"\n">>,
      signed_headers |-> <<"host">>,
      request_parameters |-> Cstr("") ]

\* strlen
RECURSIVE strlen(_)
strlen(str) == IF str = <<>> THEN 0 ELSE Len(Head(str)) + strlen(Tail(str))

\* The request_parameters of rd_kafka_aws_msk_iam_credential_refresh0.
refresh0_request_parameters(c) ==
    <<"Action", "=", "AssumeRole", "&", "DurationSeconds", "=",
      ToString(c.duration_sec), "&", "RoleArn", "=">>
        \o rd_kafka_aws_uri_encode(c.role_arn)
        \o <<"&", "RoleSessionName", "=">> \o c.role_session_name
        \o (IF c.aws_external_id # NULL
            THEN <<"&", "ExternalId", "=">>
                 \o rd_kafka_aws_uri_encode(c.aws_external_id)
            ELSE <<>>)
        \o <<"&", "Version", "=", "2011-06-15">>

\* The arguments with which rd_kafka_aws_send_request, called by
\* rd_kafka_aws_msk_iam_credential_refresh0 under the configuration c at
\* the date ymd, hms, calls rd_kafka_aws_build_canonical_request.
credential_refresh0_args(c, ymd, hms) ==
    LET request_parameters == refresh0_request_parameters(c)
    IN [ method |-> <<"POST">>,
         canonical_query_string |-> Cstr(""),
         canonical_headers |->
             <<"content-length", ":", ToString(strlen(request_parameters)),
               "\n",
               "content-type", ":",
               "application/x-www-form-urlencoded; charset=utf-8", "\n",
               "host", ":", "sts.amazonaws.com", "\n",
               "x-amz-date", ":">> \o ymd \o <<"T">> \o hms
                 \o <<"Z", "\n">>,
         signed_headers |->
             <<"content-length", ";", "content-type", ";", "host", ";",
               "x-amz-date">>,
         request_parameters |-> request_parameters ]

\* The arguments of the call of rd_kafka_aws_build_canonical_request that
\* the caller in aws makes: a unit test passes its own, the two callers of
\* the client build theirs.
build_canonical_request_args ==
    CASE aws.fn = "rd_kafka_aws_build_canonical_request" -> aws.args
      [] aws.fn = "rd_kafka_sasl_aws_msk_iam_build_client_first_message" ->
             build_client_first_message_args(aws.args.state, aws.args.ymd,
                                             aws.args.hms)
      [] aws.fn = "rd_kafka_aws_msk_iam_credential_refresh0" ->
             credential_refresh0_args(aws.args.conf, aws.args.ymd,
                                      aws.args.hms)

\* rd_kafka_aws_build_canonical_request is called, by a unit test or through
\* one of the two callers of the client, and returns; the call keeps the
\* arguments it was made with, and the canonical request.
build_canonical_request_call ==
    /\ aws # NULL
    /\ aws.pc = "call"
    /\ aws.fn \in { "rd_kafka_aws_build_canonical_request",
                     "rd_kafka_sasl_aws_msk_iam_build_client_first_message",
                     "rd_kafka_aws_msk_iam_credential_refresh0" }
    /\ LET a == build_canonical_request_args
       IN aws' = [aws EXCEPT
                    !.pc = "return",
                    !.passed = a,
                    !.ret = rd_kafka_aws_build_canonical_request(
                                a.method, a.canonical_query_string,
                                a.canonical_headers, a.signed_headers,
                                a.request_parameters)]
    /\ UNCHANGED <<conf, libxml2, failed_since, rk_sasl_handle, tt, rk_state, now, handle, lock,
                   tmr, mt, bt, op_err, wakeup_seq, expires_at, installed>>

(* ------------------------------------------------------------------ *)
(* rdkafka_aws.c: the signature and the SASL payload                   *)
(* ------------------------------------------------------------------ *)

\* The length in bytes of a SHA-256 digest, which HMAC stores in *resultlen.
SHA256_DIGEST_LENGTH == 32

\* rd_kafka_aws_hmac_sha256: the raw bytes of HMAC-SHA256 of data under key,
\* a different digest for a different key or different data, and their
\* number. The key is a string or the bytes of an earlier digest.
rd_kafka_aws_hmac_sha256(key, data) ==
    [ md |-> ToString(<<"HMAC", key, data>>), len |-> SHA256_DIGEST_LENGTH ]

\* The loop of sprintf(&res[i * 2], fmt, bytes[i]) over the bytes of a
\* digest: the string, the number of its characters and the digits that
\* fmt writes.
sprintf_hex(fmt, bytes) ==
    [ str    |-> << ToString(<<"hex", bytes.md>>) >>,
      len    |-> 2 * bytes.len,
      digits |-> IF fmt = "%02x" THEN "0123456789abcdef"
                                 ELSE "0123456789ABCDEF" ]

\* rd_kafka_aws_build_string_to_sign
rd_kafka_aws_build_string_to_sign(algorithm, credential_scope, amz_date, canonical_request) ==
    LET hashed_canonical_request == sha256_hex(canonical_request)
    IN algorithm \o <<"\n">> \o amz_date \o <<"\n">>
           \o credential_scope \o <<"\n">> \o hashed_canonical_request

\* A faulty signer that hands each derived key on as its hexadecimal string.
rd_kafka_aws_build_signature_hex_keys(aws_secret_access_key, aws_region, ymd, aws_service, string_to_sign) ==
    LET date_key == <<"AWS4">> \o aws_secret_access_key
        hmac_date_key ==
            sprintf_hex("%02x", rd_kafka_aws_hmac_sha256(date_key, ymd)).str
        hmac_date_region_key ==
            sprintf_hex("%02x", rd_kafka_aws_hmac_sha256(
                                    hmac_date_key, aws_region)).str
        hmac_date_region_service_key ==
            sprintf_hex("%02x", rd_kafka_aws_hmac_sha256(
                                    hmac_date_region_key, aws_service)).str
        hmac_signing_key ==
            sprintf_hex("%02x", rd_kafka_aws_hmac_sha256(
                                    hmac_date_region_service_key,
                                    <<"aws4_request">>)).str
        hmac_signature ==
            rd_kafka_aws_hmac_sha256(hmac_signing_key, string_to_sign)
    IN sprintf_hex("%02x", hmac_signature)

\* rd_kafka_aws_build_signature: the hexadecimal string of the signature,
\* with its length and its digits.
rd_kafka_aws_build_signature(aws_secret_access_key, aws_region, ymd, aws_service, string_to_sign) ==
    LET date_key == <<"AWS4">> \o aws_secret_access_key
        hmac_date_key == rd_kafka_aws_hmac_sha256(date_key, ymd)
        hmac_date_region_key ==
            rd_kafka_aws_hmac_sha256(hmac_date_key, aws_region)
        hmac_date_region_service_key ==
            rd_kafka_aws_hmac_sha256(hmac_date_region_key, aws_service)
        hmac_signing_key ==
            rd_kafka_aws_hmac_sha256(hmac_date_region_service_key,
                                     <<"aws4_request">>)
        hmac_signature ==
            rd_kafka_aws_hmac_sha256(hmac_signing_key, string_to_sign)
    IN sprintf_hex("%02x", hmac_signature)

\* rd_kafka_aws_build_signature is called, and called again with the same
\* arguments; both signatures are kept.
build_signature_call ==
    /\ aws # NULL
    /\ aws.fn = "rd_kafka_aws_build_signature"
    /\ aws.pc \in {"call", "again"}
    /\ LET signature == rd_kafka_aws_build_signature(
                            aws.args.aws_secret_access_key,
                            aws.args.aws_region, aws.args.ymd,
                            aws.args.aws_service, aws.args.string_to_sign)
       IN IF aws.pc = "call"
          THEN aws' = [aws EXCEPT !.pc = "again", !.passed = signature]
          ELSE aws' = [aws EXCEPT !.pc = "return", !.ret = signature]
    /\ UNCHANGED <<conf, libxml2, failed_since, rk_sasl_handle, tt, rk_state, now, handle, lock,
                   tmr, mt, bt, op_err, wakeup_seq, expires_at, installed>>

\* One field of the JSON payload: "name":"value"
json_field(name, value) ==
    <<"\"", name, "\"", ":", "\"">> \o value \o <<"\"">>

\* A faulty payload builder that writes the token as the query string has
\* it, URI-encoded.
rd_kafka_aws_build_sasl_payload_token_encoded(ymd, hms, host, aws_access_key_id, aws_secret_access_key, aws_security_token, aws_region, aws_service, method, algorithm, canonical_headers, canonical_querystring, signed_headers, request_parameters) ==
    LET canonical_request ==
            rd_kafka_aws_build_canonical_request(
                method, canonical_querystring, canonical_headers,
                signed_headers, request_parameters)
        credential_scope ==
            rd_kafka_aws_construct_credential_scope(ymd, aws_region,
                                                    aws_service)
        amz_date == rd_kafka_aws_construct_amz_date(ymd, hms)
        string_to_sign ==
            rd_kafka_aws_build_string_to_sign(algorithm, credential_scope,
                                              amz_date, canonical_request)
        signature ==
            rd_kafka_aws_build_signature(aws_secret_access_key, aws_region,
                                         ymd, aws_service, string_to_sign)
    IN <<"{">> \o json_field("version", <<"2020_10_22">>) \o <<",">>
       \o json_field("host", host) \o <<",">>
       \o json_field("user-agent", <<"librdkafka">>) \o <<",">>
       \o json_field("action", <<"kafka-cluster", ":", "Connect">>)
       \o <<",">>
       \o json_field("x-amz-algorithm", <<"AWS4-HMAC-SHA256">>) \o <<",">>
       \o json_field("x-amz-credential",
                     aws_access_key_id \o <<"/">> \o credential_scope)
       \o <<",">>
       \o json_field("x-amz-date", amz_date) \o <<",">>
       \o (IF aws_security_token # NULL
           THEN json_field("x-amz-security-token",
                           rd_kafka_aws_uri_encode(aws_security_token))
                \o <<",">>
           ELSE <<>>)
       \o json_field("x-amz-signedheaders", <<"host">>) \o <<",">>
       \o json_field("x-amz-expires", <<"900">>) \o <<",">>
       \o json_field("x-amz-signature", signature.str) \o <<"}">>

\* rd_kafka_aws_build_sasl_payload
rd_kafka_aws_build_sasl_payload(ymd, hms, host, aws_access_key_id, aws_secret_access_key, aws_security_token, aws_region, aws_service, method, algorithm, canonical_headers, canonical_querystring, signed_headers, request_parameters) ==
    LET canonical_request ==
            rd_kafka_aws_build_canonical_request(
                method, canonical_querystring, canonical_headers,
                signed_headers, request_parameters)
        credential_scope ==
            rd_kafka_aws_construct_credential_scope(ymd, aws_region,
                                                    aws_service)
        amz_date == rd_kafka_aws_construct_amz_date(ymd, hms)
        string_to_sign ==
            rd_kafka_aws_build_string_to_sign(algorithm, credential_scope,
                                              amz_date, canonical_request)
        signature ==
            rd_kafka_aws_build_signature(aws_secret_access_key, aws_region,
                                         ymd, aws_service, string_to_sign)
    IN <<"{">> \o json_field("version", <<"2020_10_22">>) \o <<",">>
       \o json_field("host", host) \o <<",">>
       \o json_field("user-agent", <<"librdkafka">>) \o <<",">>
       \o json_field("action", <<"kafka-cluster", ":", "Connect">>)
       \o <<",">>
       \o json_field("x-amz-algorithm", <<"AWS4-HMAC-SHA256">>) \o <<",">>
       \o json_field("x-amz-credential",
                     aws_access_key_id \o <<"/">> \o credential_scope)
       \o <<",">>
       \o json_field("x-amz-date", amz_date) \o <<",">>
       \o (IF aws_security_token # NULL
           THEN json_field("x-amz-security-token", aws_security_token)
                \o <<",">>
           ELSE <<>>)
       \o json_field("x-amz-signedheaders", <<"host">>) \o <<",">>
       \o json_field("x-amz-expires", <<"900">>) \o <<",">>
       \o json_field("x-amz-signature", signature.str) \o <<"}">>

\* rd_kafka_sasl_aws_msk_iam_build_client_first_message builds the payload
\* of one attempt from the state of its connection: the call keeps the
\* canonical query string that was signed, and the payload.
build_sasl_payload_call ==
    /\ aws # NULL
    /\ aws.pc = "call"
    /\ aws.fn = "rd_kafka_aws_build_sasl_payload"
    /\ LET st == aws.args.state
           a == build_client_first_message_args(st, aws.args.ymd,
                                                aws.args.hms)
       IN aws' = [aws EXCEPT
                    !.pc = "return",
                    !.passed = a,
                    !.ret = rd_kafka_aws_build_sasl_payload(
                                aws.args.ymd, aws.args.hms, st.hostname,
                                st.aws_access_key_id,
                                st.aws_secret_access_key,
                                st.aws_security_token, st.aws_region,
                                <<"kafka-cluster">>, a.method,
                                <<"AWS4-HMAC-SHA256">>, a.canonical_headers,
                                a.canonical_query_string, a.signed_headers,
                                a.request_parameters)]
    /\ UNCHANGED <<conf, libxml2, failed_since, rk_sasl_handle, tt, rk_state, now, handle, lock,
                   tmr, mt, bt, op_err, wakeup_seq, expires_at, installed>>

(* ------------------------------------------------------------------ *)
(* rdkafka_aws.c: the Expiration of an AssumeRole response             *)
(*                                                                     *)
(* The content of the element is the record of the numbers written in  *)
(* it, YYYY-MM-DDTHH:MM:SS.fffZ, or one that sscanf does not match.    *)
(* ------------------------------------------------------------------ *)

\* sscanf(content, "%4d-%2d-%2dT%2d:%2d:%fZ", ..) == 6 and the adjustments
\* that follow it: the struct tm, the float of the seconds cut to an int;
\* NULL where the content does not match.
sscanf_expiration(content) ==
    IF ~content.matches
    THEN NULL
    ELSE [ tm_year |-> content.year - 1900,
           tm_mon  |-> content.mon - 1,
           tm_mday |-> content.mday,
           tm_hour |-> content.hour,
           tm_min  |-> content.min,
           tm_sec  |-> (content.sec * 1000 + content.msec) \div 1000 ]

\* The days from 1970-01-01 to the day d of the month m of the year y.
days_from_civil(y, m, d) ==
    LET yy  == IF m <= 2 THEN y - 1 ELSE y
        era == yy \div 400
        yoe == yy - era * 400
        mp  == (m + 9) % 12
        doy == (153 * mp + 2) \div 5 + d - 1
        doe == yoe * 365 + yoe \div 4 - yoe \div 100 + doy
    IN era * 146097 + doe - 719468

\* The seconds since the epoch of the broken-down time tm read as UTC.
timegm(tm) ==
    days_from_civil(tm.tm_year + 1900, tm.tm_mon + 1, tm.tm_mday) * 86400
        + tm.tm_hour * 3600 + tm.tm_min * 60 + tm.tm_sec

\* mktime: tm is read as local time, in a process whose zone is gmtoff
\* seconds east of UTC.
mktime(tm, gmtoff) == timegm(tm) - gmtoff

\* credential->md_lifetime_ms after the Expiration child of Credentials has
\* been gone through, md_lifetime_ms being its value before.
expiration_md_lifetime_ms(md_lifetime_ms, content, gmtoff) ==
    LET tm == sscanf_expiration(content)
    IN IF tm = NULL
       THEN md_lifetime_ms
       ELSE LET epochSec == mktime(tm, gmtoff)
            IN IF epochSec > 0
               THEN epochSec * 1000
               ELSE md_lifetime_ms

\* rd_kafka_aws_send_request comes to the Expiration of the response.
expiration_call ==
    /\ aws # NULL
    /\ aws.pc = "call"
    /\ aws.fn = "Expiration"
    /\ aws' = [aws EXCEPT
                 !.pc = "return",
                 !.ret = expiration_md_lifetime_ms(
                             aws.args.md_lifetime_ms, aws.args.content,
                             aws.args.gmtoff)]
    /\ UNCHANGED <<conf, libxml2, failed_since, rk_sasl_handle, tt, rk_state, now, handle, lock,
                   tmr, mt, bt, op_err, wakeup_seq, expires_at, installed>>

(* ------------------------------------------------------------------ *)
(* rdkafka_aws.c: the section that parses the response                 *)
(*                                                                     *)
(* has_been_called and libxml2_lock are statics of the function: one   *)
(* of each in the process, shared by the main threads of its clients.  *)
(* ------------------------------------------------------------------ *)

\* The main threads of two clients of the process.
Threads == {"rk1", "rk2"}

\* What curl_easy_perform leaves in req.buffer: nothing that parses, an
\* ErrorResponse, a document without Credentials, an AssumeRoleResponse.
XmlDocuments ==
    {"unparseable", "ErrorResponse", "no_credentials", "AssumeRoleResponse"}

\* The exit of the section that a document takes.
xml_exit(document) ==
    CASE document = "unparseable"        -> 653
      [] document = "ErrorResponse"      -> 683
      [] document = "no_credentials"     -> 703
      [] document = "AssumeRoleResponse" -> 760

\* mtx_lock on a mutex that mtx_init has not initialized is undefined: the
\* zeroed static is taken for a free mutex, or the call fails and the
\* thread, which does not look at the result, goes on without the mutex,
\* or the process is killed.
mtx_lock_uninitialized_outcomes == {"acquired", "error", "crashed"}

\* mtx_init on a mutex that a thread holds is undefined: the mutex is made
\* free again, or stays held.
mtx_init_held_outcomes == {"reset", "kept"}

\* curl_easy_perform returns to the thread t with a document.
curl_easy_perform(t) ==
    /\ rk_state = "new"
    /\ libxml2 # NULL
    /\ libxml2.thr[t].pc = "curl_easy_perform"
    /\ \E document \in XmlDocuments :
         libxml2' = [libxml2 EXCEPT
                       !.thr[t].document = document,
                       !.thr[t].pc = "exchange"]
    /\ UNCHANGED <<conf, rk_state, now, handle, lock, tmr, mt, bt, op_err,
                   wakeup_seq, expires_at, installed, rk_sasl_handle, tt,
                   aws, failed_since>>

\* if (!rd_atomic32_exchange(&has_been_called, 1)) mtx_init(..): where the
\* thread goes with the value the exchange returned.
exchange_next(old) == IF old = 0 THEN "mtx_init" ELSE "mtx_lock"

\* rd_atomic32_exchange(&has_been_called, 1)
exchange(t) ==
    /\ rk_state = "new"
    /\ libxml2 # NULL
    /\ libxml2.thr[t].pc = "exchange"
    /\ libxml2' = [libxml2 EXCEPT
                     !.has_been_called = 1,
                     !.thr[t].pc = exchange_next(libxml2.has_been_called)]
    /\ UNCHANGED <<conf, rk_state, now, handle, lock, tmr, mt, bt, op_err,
                   wakeup_seq, expires_at, installed, rk_sasl_handle, tt,
                   aws, failed_since>>

\* mtx_init(&libxml2_lock, mtx_plain)
mtx_init(t) ==
    /\ rk_state = "new"
    /\ libxml2 # NULL
    /\ libxml2.thr[t].pc = "mtx_init"
    /\ \E outcome \in IF libxml2.libxml2_lock.owners = {}
                      THEN {"reset"}
                      ELSE mtx_init_held_outcomes :
         libxml2' = [libxml2 EXCEPT
                       !.libxml2_lock.initialized = TRUE,
                       !.libxml2_lock.owners =
                           IF outcome = "reset" THEN {} ELSE @,
                       !.inits = @ + 1,
                       !.thr[t].pc = "mtx_lock"]
    /\ UNCHANGED <<conf, rk_state, now, handle, lock, tmr, mt, bt, op_err,
                   wakeup_seq, expires_at, installed, rk_sasl_handle, tt,
                   aws, failed_since>>

\* mtx_lock(&libxml2_lock): the thread waits for an initialized mutex to be
\* free and takes it.
mtx_lock(t) ==
    /\ libxml2 # NULL
    /\ rk_state = "new"
    /\ libxml2.thr[t].pc = "mtx_lock"
    /\ IF libxml2.libxml2_lock.initialized
       THEN /\ libxml2.libxml2_lock.owners = {}
            /\ libxml2' = [libxml2 EXCEPT
                             !.libxml2_lock.owners = {t},
                             !.thr[t].pc = "parse"]
            /\ rk_state' = rk_state
       ELSE \E outcome \in mtx_lock_uninitialized_outcomes :
              CASE outcome = "acquired" ->
                       /\ libxml2.libxml2_lock.owners = {}
                       /\ libxml2' = [libxml2 EXCEPT
                                        !.libxml2_lock.owners = {t},
                                        !.thr[t].pc = "parse"]
                       /\ rk_state' = rk_state
                [] outcome = "error" ->
                       /\ libxml2' = [libxml2 EXCEPT !.thr[t].pc = "parse"]
                       /\ rk_state' = rk_state
                [] outcome = "crashed" ->
                       /\ libxml2' = libxml2
                       /\ rk_state' = "crashed"
    /\ UNCHANGED <<conf, now, handle, lock, tmr, mt, bt, op_err,
                   wakeup_seq, expires_at, installed, rk_sasl_handle, tt,
                   aws, failed_since>>

\* xmlReadMemory and the walk of the document, up to the goto or the end
\* that leaves the section.
parse(t) ==
    /\ rk_state = "new"
    /\ libxml2 # NULL
    /\ libxml2.thr[t].pc = "parse"
    /\ libxml2' = [libxml2 EXCEPT
                     !.thr[t].exit = xml_exit(libxml2.thr[t].document),
                     !.thr[t].pc = "done_libxml2"]
    /\ UNCHANGED <<conf, rk_state, now, handle, lock, tmr, mt, bt, op_err,
                   wakeup_seq, expires_at, installed, rk_sasl_handle, tt,
                   aws, failed_since>>

\* done_libxml2: xmlFreeDoc, mtx_unlock(&libxml2_lock)
mtx_unlock(t) ==
    /\ rk_state = "new"
    /\ libxml2 # NULL
    /\ libxml2.thr[t].pc = "done_libxml2"
    /\ libxml2' = [libxml2 EXCEPT
                     !.libxml2_lock.owners = @ \ {t},
                     !.thr[t].pc = "returned"]
    /\ UNCHANGED <<conf, rk_state, now, handle, lock, tmr, mt, bt, op_err,
                   wakeup_seq, expires_at, installed, rk_sasl_handle, tt,
                   aws, failed_since>>

(* ------------------------------------------------------------------ *)
(* Specification                                                       *)
(* ------------------------------------------------------------------ *)

Next ==
    \/ ConfValidate
    \/ init
    \/ Tick
    \/ credential_refresh_tmr_cb
    \/ credential_refresh0_wrlock
    \/ credential_refresh0_send
    \/ credential_refresh0_return
    \/ set_credential_enter
    \/ set_credential_write
    \/ set_credential_locked
    \/ set_credential_wakeup
    \/ set_credential_failure_wrlock
    \/ set_credential_failure_locked
    \/ set_credential_failure_op_err
    \/ \E b \in Brokers : client_new_rdlock(b)
    \/ \E b \in Brokers : client_new_locked(b)
    \/ \E b \in Brokers : fsm_send_client_first_message(b)
    \/ \E b \in Brokers : recv(b)
    \/ \E b \in Brokers : close(b)

Spec == Init /\ [][Next]_vars

(* ------------------------------------------------------------------ *)
(* Properties                                                          *)
(* ------------------------------------------------------------------ *)

\* The connection of b has had a server frame put through the state machine.
Responded(b) == bt[b].in # NULL

BrokerResponseFmt ==
    "SASL AWS MSK IAM authentication failed: Broker response: %s"

HasSnapshot(b) ==
    /\ bt[b].state # NULL
    /\ bt[b].pc \in {"client_new_fsm", "await", "authenticated", "failed"}
    /\ bt[b].state.aws_access_key_id # NULL

\* C2: from the copy made by client_new until close, the credential fields
\* of the per-connection state do not change, whatever set_credential does
\* to the handle meanwhile, and the payload handed to the transport is built
\* from those fields.
C2_SnapshotFrozen ==
    [][ \A b \in Brokers :
          (/\ bt[b].state # NULL
           /\ bt[b].pc # "client_new_locked"
           /\ bt'[b].state # NULL)
          => /\ CredFields(bt'[b].state) = CredFields(bt[b].state)
             /\ bt'[b].out # NULL
                  => CredFields(bt'[b].out) = CredFields(bt[b].state)
      ]_vars

\* Two attempts in flight with different snapshots, the older one having
\* sent its payload, built from a credential the handle no longer holds.
C2_Witness ==
    \E b1, b2 \in Brokers :
        /\ HasSnapshot(b1) /\ HasSnapshot(b2)
        /\ bt[b1].pc = "await"
        /\ CredFields(bt[b1].state) # CredFields(bt[b2].state)
        /\ CredFields(bt[b1].out) # CredFields(handle)
        /\ CredFields(bt[b2].state) = CredFields(handle)

\* C3: set_credential with an expiry that is not after the clock reading
\* returns RD_KAFKA_RESP_ERR__INVALID_ARG and leaves the handle (credential
\* fields and errstr), the lock and the timer as they were, and wakes no
\* broker.
C3_ExpiredRejected ==
    [][ (/\ mt.pc = "set_credential"
         /\ mt' # mt
         /\ mt.credential.md_lifetime_ms * 1000 <= now)
        => /\ mt'.ret = RD_KAFKA_RESP_ERR__INVALID_ARG
           /\ mt'.pc = "set_credential_failure"
           /\ handle' = handle
           /\ tmr' = tmr
           /\ lock' = lock
           /\ wakeup_seq' = wakeup_seq
           /\ installed' = installed
      ]_vars

\* set_credential has refused a credential while the handle held an earlier
\* one from STS.
C3_Witness ==
    /\ mt.pc = "set_credential_failure"
    /\ mt.ret = RD_KAFKA_RESP_ERR__INVALID_ARG
    /\ mt.credential.md_lifetime_ms * 1000 <= now
    /\ handle.aws_security_token # NULL

Complete(c) ==
    /\ c.aws_access_key_id # NULL
    /\ c.aws_secret_access_key # NULL
    /\ c.aws_region # NULL
    /\ c.aws_security_token # NULL

\* C4: once set_credential has installed a credential C with an access
\* key, a secret and a region, a client_new that reads the handle before any
\* later write of it succeeds and holds a snapshot whose access key, secret,
\* region and session token (absent if absent in C) equal those of C.
C4_InstallThenSnapshot ==
    [][ \A b \in Brokers :
          (/\ bt[b].pc = "client_new_locked"
           /\ bt'[b].pc # "client_new_locked"
           /\ installed # NULL
           /\ installed.aws_access_key_id # NULL
           /\ installed.aws_secret_access_key # NULL
           /\ installed.aws_region # NULL)
          => /\ bt'[b].pc = "client_new_fsm"
             /\ CredFields(bt'[b].state) = installed
      ]_vars

NoCredentialsFmt ==
    "AWS_MSK_IAM cannot log in because there is no credentials available; last error: %s"

NoTokenFmt == "AWS_MSK_IAM_STS cannot authenticate; last error: %s"

\* C5: client_new returns -1, sends nothing and leaves the state in
\* SEND_CLIENT_FIRST_MESSAGE when the handle lacks the access key, the
\* secret or the region, or when enable_use_sts is set and the handle has no
\* security token; in every other case it copies the handle's credential
\* and goes on to the state machine.
C5_SnapshotFailsWithoutCredential ==
    [][ \A b \in Brokers :
          (bt[b].pc = "client_new_locked" /\ bt'[b].pc # "client_new_locked")
          => IF \/ handle.aws_access_key_id = NULL
                \/ handle.aws_secret_access_key = NULL
                \/ handle.aws_region = NULL
             THEN /\ bt'[b].pc = "failed"
                  /\ bt'[b].ret = -1
                  /\ bt'[b].out = NULL
                  /\ bt'[b].errstr[1] = NoCredentialsFmt
                  /\ bt'[b].state.state =
                       RD_KAFKA_SASL_AWS_MSK_IAM_SEND_CLIENT_FIRST_MESSAGE
             ELSE IF conf.enable_use_sts /\ handle.aws_security_token = NULL
             THEN /\ bt'[b].pc = "failed"
                  /\ bt'[b].ret = -1
                  /\ bt'[b].out = NULL
                  /\ bt'[b].errstr[1] = NoTokenFmt
                  /\ bt'[b].state.state =
                       RD_KAFKA_SASL_AWS_MSK_IAM_SEND_CLIENT_FIRST_MESSAGE
             ELSE /\ bt'[b].pc = "client_new_fsm"
                  /\ CredFields(bt'[b].state) = CredFields(handle)
                  /\ bt'[b].state.hostname = Hostname(b)
      ]_vars

\* One connection refused for the missing security token, another for the
\* missing access key, neither having sent anything.
C5_Witness ==
    \E b1, b2 \in Brokers :
        /\ bt[b1].pc = "failed" /\ bt[b1].ret = -1 /\ bt[b1].out = NULL
        /\ bt[b1].errstr[1] = NoTokenFmt
        /\ bt[b2].pc = "failed" /\ bt[b2].ret = -1 /\ bt[b2].out = NULL
        /\ bt[b2].errstr[1] = NoCredentialsFmt

FailurePcs ==
    {"set_credential_failure", "set_credential_failure_locked",
     "set_credential_failure_op_err"}

\* The response is an AssumeRoleResponse with every required child and an
\* Expiration in the future.
GoodResponse(resp) ==
    /\ resp.kind = "AssumeRoleResponse"
    /\ resp.missing = "none"
    /\ resp.expiration = "future"

\* No refresh has failed so far, and none is about to.
EveryStsCallSucceeded ==
    /\ op_err.err = RD_KAFKA_RESP_ERR_NO_ERROR
    /\ handle.errstr = NULL
    /\ mt.pc \notin FailurePcs
    /\ mt.resp = NULL \/ GoodResponse(mt.resp)
    /\ installed # NULL /\ Complete(installed)

\* The step in which set_credential writes the handle and restarts the timer.
InstallStep ==
    mt.pc = "set_credential_locked" /\ mt'.pc = "set_credential_wakeup"

\* C6, as the specification states it: every install of a credential with
\* expiry E schedules the next refresh before E, so that while every STS
\* call succeeds no client_new copies a credential whose expiry has passed.
C6_NoExpiredSnapshot ==
    [][ /\ InstallStep
          => mt.now_wallclock + tmr'.interval < expires_at'
        /\ \A b \in Brokers :
             (/\ bt[b].pc = "client_new_locked"
              /\ bt'[b].pc = "client_new_fsm"
              /\ EveryStsCallSucceeded)
             => now < expires_at
      ]_vars

\* C6, as the code has it: every install of a credential with expiry E
\* restarts the refresh timer with an interval of 80% of the lifetime that
\* remained when set_credential read the clock, so that the interval added
\* to that clock reading falls strictly before E.
C6_RefreshIntervalBeforeExpiry ==
    [][ InstallStep
        => /\ tmr'.started
           /\ mt.now_wallclock < expires_at'
           /\ tmr'.interval * 10 <= (expires_at' - mt.now_wallclock) * 8
           /\ tmr'.interval * 10 > (expires_at' - mt.now_wallclock) * 8 - 10
           /\ mt.now_wallclock + tmr'.interval < expires_at'
      ]_vars

\* A credential has just been installed with 10 s to live and the timer set
\* to 8 s.
C6_Witness ==
    /\ mt.pc = "set_credential_wakeup"
    /\ tmr.started
    /\ tmr.interval = 8 * UsPerSec
    /\ expires_at = mt.now_wallclock + DurationSec * UsPerSec
    /\ now < expires_at

\* C7: in STS mode with duration_sec > 0 the refresh loop is alive from init
\* on: the client runs and the refresh timer is armed, whatever the STS
\* calls came back with.
C7_RefreshLoopNeverStops ==
    (/\ conf.enable_use_sts
     /\ conf.duration_sec > 0
     /\ rk_state \notin {"new", "validated", "conf_invalid"})
    => rk_state = "running" /\ tmr.started

\* C8: while the refresh handles an AssumeRoleResponse that lacks
\* AccessKeyId, SecretAccessKey, SessionToken or Expiration, the handle's
\* credential stays as it was and nothing is installed; the refresh goes
\* the way of set_credential_failure with an error text.
C8_MissingChildFailsRefresh ==
    [][ (/\ mt.resp # NULL
         /\ mt.resp.kind = "AssumeRoleResponse"
         /\ mt.resp.missing \in CredentialsChildren)
        => /\ CredFields(handle') = CredFields(handle)
           /\ installed' = installed
           /\ rk_state' = rk_state
           /\ mt'.pc \in FailurePcs \cup {"set_credential", "idle"}
           /\ mt'.pc \in FailurePcs => mt'.errstr \notin {NULL, Cstr("")}
      ]_vars

\* C9: no step of set_credential_failure changes the access key, secret,
\* region or security token of the handle, so that a client_new that follows
\* copies the credential installed before the failure.
C9_FailureKeepsCredential ==
    [][ /\ mt.pc \in FailurePcs
          => /\ CredFields(handle') = CredFields(handle)
             /\ installed' = installed
        /\ \A b \in Brokers :
             (/\ bt[b].pc = "client_new_locked"
              /\ bt'[b].pc = "client_new_fsm"
              /\ installed # NULL)
             => CredFields(bt'[b].state) = installed
      ]_vars

\* A connection holds a copy of the credential installed before a failure
\* that the handle has recorded since.
C9_Witness ==
    \E b \in Brokers :
        /\ bt[b].pc = "client_new_fsm"
        /\ handle.errstr # NULL
        /\ op_err.err = RD_KAFKA_RESP_ERR__AUTHENTICATION
        /\ installed # NULL
        /\ CredFields(bt[b].state) = installed
        /\ CredFields(handle) = installed

AcquireFailedFmt == "Failed to acquire SASL AWS_MSK_IAM credential: %s"

\* C10: set_credential_failure with a non-empty errstr stores errstr as the
\* handle's last error, and emits RD_KAFKA_RESP_ERR__AUTHENTICATION with
\* "Failed to acquire SASL AWS_MSK_IAM credential: " and errstr exactly when
\* the handle had no last error or one different from errstr.
C10_ErrorEventIffChanged ==
    [][ /\ (/\ mt.pc = "set_credential_failure_locked"
            /\ mt' # mt
            /\ mt.errstr \notin {NULL, Cstr("")})
          => /\ mt'.pc = "set_credential_failure_op_err"
             /\ handle'.errstr = mt.errstr
             /\ mt'.errstr = mt.errstr
             /\ mt'.error_changed =
                  (handle.errstr = NULL \/ handle.errstr # mt.errstr)
             /\ op_err' = op_err
        /\ (mt.pc = "set_credential_failure_op_err" /\ mt' # mt)
          => /\ handle'.errstr = mt.errstr
             /\ mt'.pc = "idle"
             /\ IF mt.error_changed
                THEN /\ op_err'.seq # op_err.seq
                     /\ op_err'.err = RD_KAFKA_RESP_ERR__AUTHENTICATION
                     /\ op_err'.errstr = <<AcquireFailedFmt, mt.errstr>>
                ELSE op_err' = op_err
      ]_vars

\* A failure whose errstr is the handle's last error has been stored and is
\* about to be passed over without an event.
C10_Witness ==
    /\ mt.pc = "set_credential_failure_op_err"
    /\ ~mt.error_changed
    /\ handle.errstr = mt.errstr
    /\ op_err.errstr = <<AcquireFailedFmt, mt.errstr>>

(* ------------------------------------------------------------------ *)
(* set_credential on its own, over a range of clocks and lifetimes      *)
(* ------------------------------------------------------------------ *)

\* Clock readings (us) at which credential_refresh calls set_credential.
InstallClocks == {T0, T0 + 3, T0 + 999}

\* Lifetimes (ms past the clock's millisecond) of the credential passed in.
InstallLifetimesMs == {0, 1, 2, 1000, 1001, DurationSec * MsPerSec}

\* Intervals the timer may have from before: that of init, that of an
\* install with twice the lifetime, that of a failure.
InstallPriorIntervals ==
    { DurationSec * 800 * 1000, 2 * DurationSec * 800 * 1000,
      FailureRefreshIntervalUs }

\* Error texts rd_kafka_aws_send_request leaves behind when it fails.
InstallErrstrs ==
    { Cstr("curl: (7) Couldn't connect to server"), Cstr("AccessDenied"),
      Cstr("AWS send request: unknown error") }

\* The client runs in STS mode, the timer has fired and STS has answered:
\* with a complete credential, credential_refresh being about to call
\* set_credential, or with a failure, it being about to call
\* set_credential_failure.
InitInstall ==
    /\ conf \in {c \in ConfSet : /\ conf_validate(c) = 0
                                 /\ c.enable_use_sts
                                 /\ c.duration_sec > 0}
    /\ rk_state = "running"
    /\ now \in InstallClocks
    /\ handle = [ aws_access_key_id     |-> conf.aws_access_key_id,
                  aws_secret_access_key |-> conf.aws_secret_access_key,
                  aws_region            |-> conf.aws_region,
                  aws_security_token    |-> NULL,
                  errstr                |-> NULL ]
    /\ lock = [writer |-> FALSE, readers |-> {}]
    /\ \E interval \in InstallPriorIntervals :
         tmr = [started  |-> TRUE,
                interval |-> interval,
                next     |-> now + interval]
    /\ \/ \E errstr \in InstallErrstrs :
            mt = [ mt_idle EXCEPT
                     !.pc = "set_credential_failure",
                     !.errstr = errstr,
                     !.credential = refresh0_credential ]
       \/ \E id \in StsCredIds, life \in InstallLifetimesMs :
         mt = [ mt_idle EXCEPT
                  !.pc = "set_credential",
                  !.ret = RD_KAFKA_RESP_ERR_NO_ERROR,
                  !.resp = [kind |-> "AssumeRoleResponse", id |-> id,
                            missing |-> "none", expiration |-> "future",
                            message |-> NULL],
                  !.credential =
                      [ aws_access_key_id     |-> StsAccessKeyId(id),
                        aws_secret_access_key |-> StsSecretAccessKey(id),
                        aws_region            |-> conf.aws_region,
                        aws_security_token    |-> StsSessionToken(id),
                        md_lifetime_ms        |-> now \div UsPerMs + life ] ]
    /\ bt = [b \in Brokers |-> bt_idle]
    /\ op_err = [seq |-> 0, err |-> RD_KAFKA_RESP_ERR_NO_ERROR, errstr |-> NULL]
    /\ wakeup_seq = 0
    /\ expires_at = 0
    /\ installed = NULL
    /\ rk_sasl_handle = handle_ptr
    /\ tt = tt_idle
    /\ aws = NULL
    /\ libxml2 = NULL
    /\ failed_since = NULL

NextInstall ==
    \/ Tick
    \/ set_credential_enter
    \/ set_credential_write
    \/ set_credential_locked
    \/ set_credential_wakeup
    \/ set_credential_failure_wrlock
    \/ set_credential_failure_locked
    \/ set_credential_failure_op_err

SpecInstall == InitInstall /\ [][NextInstall]_vars

\* C11: a successful set_credential with expiry E, having read the clock as
\* now_wallclock, starts the refresh timer with the interval
\* ((E - now_wallclock) * 8) / 10 in integer arithmetic, the fire being due
\* that interval after the timer is started; a remaining lifetime of
\* 1000 ms gives 800 ms.
C11_IntervalIsFourFifths ==
    [][ InstallStep
        => LET remaining == expires_at' - mt.now_wallclock
           IN /\ remaining > 0
              /\ tmr'.started
              /\ tmr'.interval = (remaining * 8) \div 10
              /\ tmr'.next = now + tmr'.interval
              /\ remaining = 1000 * UsPerMs
                   => tmr'.interval = 800 * UsPerMs
      ]_vars

\* A credential with 1000 ms to live has been installed and the timer is
\* due 800 ms after the clock reading.
C11_Witness ==
    /\ mt.pc = "set_credential_wakeup"
    /\ expires_at - mt.now_wallclock = 1000 * UsPerMs
    /\ tmr.started
    /\ tmr.interval = 800 * UsPerMs
    /\ tmr.next = mt.now_wallclock + 800 * UsPerMs

\* C12: every set_credential_failure, whatever errstr is and whatever the
\* timer was set to, restarts the refresh timer with an interval of 10 s
\* (10000 ms), due 10 s from then.
C12_FailureRearmsTenSeconds ==
    [][ (mt.pc = "set_credential_failure_locked" /\ mt' # mt)
        => tmr' = [ started  |-> TRUE,
                    interval |-> 10000 * UsPerMs,
                    next     |-> now + 10000 * UsPerMs ]
      ]_vars

\* A refused credential has been recorded as a failure and the timer runs
\* on 10 s, due 10 s from now.
C12_Witness ==
    /\ mt.pc = "set_credential_failure_op_err"
    /\ mt.ret = RD_KAFKA_RESP_ERR__INVALID_ARG
    /\ tmr.started
    /\ tmr.interval = 10000 * UsPerMs
    /\ tmr.next = now + 10000 * UsPerMs

\* C13: rd_kafka_all_brokers_wakeup is called when the credential passed to
\* set_credential is in the handle, field for field, and the write lock is
\* released; and a client_new that reads the handle once a credential has
\* been installed reads the one installed last, so a broker woken by an
\* install copies that credential or a later one, never an earlier one.
C13_WakeupAfterWrite ==
    [][ /\ wakeup_seq' # wakeup_seq
          => /\ ~lock.writer
             /\ ~lock'.writer
             /\ CredFields(handle) = CredFields(mt.credential)
             /\ installed = CredFields(mt.credential)
             /\ handle' = handle
        /\ \A b \in Brokers :
             (/\ bt[b].pc = "client_new_locked"
              /\ bt'[b].pc # "client_new_locked"
              /\ installed # NULL)
             => /\ ~lock.writer
                /\ CredFields(handle) = installed
                /\ bt'[b].pc = "client_new_fsm"
                     => CredFields(bt'[b].state) = installed
      ]_vars

\* After the wake-up of a first install, with the main thread back at rest,
\* a broker has copied the credential of that install.
C13_Witness ==
    \E b \in Brokers :
        /\ wakeup_seq = 1
        /\ mt.pc = "idle"
        /\ bt[b].pc = "client_new_fsm"
        /\ installed # NULL
        /\ CredFields(bt[b].state) = installed
        /\ bt[b].state.aws_security_token # NULL

\* C14: every successful install is followed by the wake-up of the brokers,
\* nothing coming between on the main thread, and a broker that runs
\* client_new once a credential (with access key, secret and region) has
\* been installed and its wake-up issued is not turned away for lack of
\* credentials: it obtains a snapshot.
C14_WokenBrokerObtainsSnapshot ==
    [][ /\ (mt.pc = "set_credential_wakeup" /\ mt' # mt)
          => wakeup_seq' # wakeup_seq
        /\ \A b \in Brokers :
             (/\ bt[b].pc = "client_new_locked"
              /\ bt'[b].pc # "client_new_locked"
              /\ installed # NULL
              /\ mt.pc # "set_credential_wakeup"
              /\ installed.aws_access_key_id # NULL
              /\ installed.aws_secret_access_key # NULL
              /\ installed.aws_region # NULL)
             => /\ bt'[b].pc = "client_new_fsm"
                /\ bt'[b].ret = 0
      ]_vars

\* The credential of the configuration, as init puts it into the handle.
StaticCredential ==
    [ aws_access_key_id     |-> conf.aws_access_key_id,
      aws_secret_access_key |-> conf.aws_secret_access_key,
      aws_region            |-> conf.aws_region,
      aws_security_token    |-> NULL ]

\* Every field of c that is there comes from one and the same credential:
\* the configured one, or the i-th of STS.
FromOneCredential(c) ==
    \/ c = StaticCredential
    \/ \E i \in StsCredIds :
         /\ c.aws_access_key_id \in {NULL, StsAccessKeyId(i)}
         /\ c.aws_secret_access_key \in {NULL, StsSecretAccessKey(i)}
         /\ c.aws_security_token \in {NULL, StsSessionToken(i)}
         /\ c.aws_region = conf.aws_region

\* C15: with set_credential writing and any number of client_new reading,
\* the credential fields of every per-connection state and of every payload
\* come from one credential, and so do those of the handle whenever the
\* write lock is not held: no reader is inside while the writer is.
C15_NoTornSnapshot ==
    /\ \A b \in Brokers :
         /\ HasSnapshot(b) => FromOneCredential(CredFields(bt[b].state))
         /\ bt[b].out # NULL => FromOneCredential(CredFields(bt[b].out))
    /\ handle # NULL /\ ~lock.writer => FromOneCredential(CredFields(handle))
    /\ lock.writer => lock.readers = {}

\* set_credential is between the fields: the handle has the access key of
\* the second credential of STS and the token of the first, the write lock
\* is held, and a broker holds a snapshot of the first.
C15_Witness ==
    \E b \in Brokers :
        /\ lock.writer
        /\ mt.pc = "set_credential_locked"
        /\ handle.aws_access_key_id = StsAccessKeyId(2)
        /\ handle.aws_security_token = StsSessionToken(1)
        /\ ~FromOneCredential(CredFields(handle))
        /\ HasSnapshot(b)
        /\ bt[b].state.aws_access_key_id = StsAccessKeyId(1)

\* C16: no step of a connection (client_new, the state machine, recv,
\* close), whether it succeeds or fails, changes the credential fields or
\* the last error of the handle, or the refresh timer.
C16_ConnectionLeavesStore ==
    [][ bt' # bt
        => /\ handle' = handle
           /\ tmr' = tmr
           /\ installed' = installed
           /\ expires_at' = expires_at
      ]_vars

\* One connection was refused by the broker, the other is closed again
\* or was never opened; the handle still has the credential installed and
\* the timer its interval of 8 s.
C16_Witness ==
    \E b1, b2 \in Brokers :
        /\ bt[b1].pc = "failed" /\ Responded(b1) /\ bt[b1].ret = -1
        /\ bt[b2].pc = "idle"
        /\ installed # NULL
        /\ handle.aws_security_token # NULL
        /\ CredFields(handle) = installed
        /\ tmr.started
        /\ tmr.interval = 8 * UsPerSec

\* C17: without enable_use_sts, init starts no refresh timer, a call of
\* credential_refresh returns without a request to STS, a set_credential or
\* a set_credential_failure, and the handle keeps the access key, secret
\* and region of the configuration, with no token and no error.
C17_InertWithoutSts ==
    (~conf.enable_use_sts /\ rk_state \notin {"new", "validated", "conf_invalid"})
    => /\ rk_state = "running"
       /\ ~tmr.started
       /\ mt = mt_idle
       /\ credential_refresh(mt) = mt
       /\ CredFields(handle) = StaticCredential
       /\ handle.aws_access_key_id = conf.aws_access_key_id
       /\ handle.aws_secret_access_key = conf.aws_secret_access_key
       /\ handle.aws_region = conf.aws_region
       /\ handle.errstr = NULL
       /\ installed = NULL
       /\ wakeup_seq = 0
       /\ op_err.seq = 0
       /\ ~lock.writer

\* Without enable_use_sts, though with a duration_sec, the clock has run
\* to its end and a connection has authenticated with the static credential.
C17_Witness ==
    \E b \in Brokers :
        /\ ~conf.enable_use_sts
        /\ conf.duration_sec > 0
        /\ now = MaxNow
        /\ bt[b].pc = "authenticated"
        /\ CredFields(bt[b].state) = StaticCredential
        /\ ~tmr.started

\* C18: with enable_use_sts and duration_sec > 0, init starts the refresh
\* timer with an interval of 0.8 x duration_sec and moves its first fire to
\* the present, so that the callback can run at once; without, init leaves
\* the timer stopped.
C18_InitArmsImmediateRefresh ==
    [][ (rk_state = "validated" /\ rk_state' = "running")
        => IF conf.enable_use_sts /\ conf.duration_sec > 0
           THEN /\ tmr'.started
                /\ tmr'.interval * 10 = conf.duration_sec * UsPerSec * 8
                /\ tmr'.next = now
                /\ mt'.pc = "idle" /\ now' >= tmr'.next
           ELSE ~tmr'.started
      ]_vars

\* The first refresh is under way at the clock reading of init, before any
\* time has passed; the timer is next due 0.8 x duration_sec later.
C18_Witness ==
    /\ conf.enable_use_sts
    /\ mt.pc = "refresh0"
    /\ now = T0
    /\ installed = NULL
    /\ handle.errstr = NULL
    /\ tmr.started
    /\ tmr.interval = DurationSec * 800 * UsPerMs
    /\ tmr.next = now + tmr.interval

\* C19: the step of the state machine in SEND_CLIENT_FIRST_MESSAGE builds
\* the payload from the credential fields of the state, hands exactly one
\* message to rd_kafka_sasl_send and sets the state to
\* RECEIVE_SERVER_RESPONSE; from there on, until close, the state stays
\* RECEIVE_SERVER_RESPONSE and no further message is sent.
C19_OneClientMessage ==
    [][ \A b \in Brokers :
          /\ (bt[b].pc = "client_new_fsm" /\ bt'[b] # bt[b])
               => /\ bt[b].state.state =
                        RD_KAFKA_SASL_AWS_MSK_IAM_SEND_CLIENT_FIRST_MESSAGE
                  /\ bt[b].sends = 0
                  /\ bt'[b].sends = 1
                  /\ bt'[b].out # NULL
                  /\ bt'[b].out.host = Hostname(b)
                  /\ CredFields(bt'[b].out) = CredFields(bt[b].state)
                  /\ bt'[b].state.state =
                        RD_KAFKA_SASL_AWS_MSK_IAM_RECEIVE_SERVER_RESPONSE
          /\ (/\ bt[b].state # NULL
              /\ bt[b].state.state =
                    RD_KAFKA_SASL_AWS_MSK_IAM_RECEIVE_SERVER_RESPONSE
              /\ bt'[b].state # NULL)
               => /\ bt'[b].state.state =
                        RD_KAFKA_SASL_AWS_MSK_IAM_RECEIVE_SERVER_RESPONSE
                  /\ bt'[b].sends = bt[b].sends
                  /\ bt'[b].out = bt[b].out
      ]_vars

\* A connection has gone through both states, the server's frame included,
\* and has sent one message.
C19_Witness ==
    \E b \in Brokers :
        /\ Responded(b)
        /\ bt[b].sends = 1
        /\ bt[b].out # NULL
        /\ bt[b].state.state =
              RD_KAFKA_SASL_AWS_MSK_IAM_RECEIVE_SERVER_RESPONSE

\* The attempt of b has ended: the server's frame has been processed, or
\* client_new or the state machine has returned -1.
Ended(b) == Responded(b) \/ bt[b].pc = "failed"

Attached(b) == bt[b].state # NULL

\* C21: the state object of a connection is always destroyed.  client_new
\* attaches it to the transport before it can return, so that it is
\* attached on every return path, the two failures without credentials
\* included; close frees it and clears the transport's pointer; and on a
\* transport without a state nothing happens until the next client_new, a
\* second close being a no-op.
C21_StateAlwaysDestroyed ==
    [][\A b \in Brokers :
         /\ bt'[b].pc \in {"client_new_locked", "client_new_fsm", "await",
                           "authenticated", "failed"}
              => bt'[b].state # NULL
         /\ (bt[b].pc \in {"await", "authenticated", "failed"}
              /\ bt'[b].pc = "idle")
              => /\ bt'[b].state = NULL
                 /\ bt'[b] = bt_idle
         /\ (Attached(b) /\ bt'[b].state = NULL)
              => bt[b].pc \in {"await", "authenticated", "failed"}
         /\ ~Attached(b)
              => \/ bt'[b] = bt[b]
                 \/ /\ bt'[b].pc = "client_new_locked"
                    /\ bt'[b].state # NULL]_vars

\* client_new has returned -1 for want of credentials on one connection,
\* its state still attached, while another connection, closed or never
\* opened, has none.
C21_Witness ==
    \E b, c \in Brokers :
        /\ bt[b].pc = "failed"
        /\ bt[b].ret = -1
        /\ bt[b].errstr # NULL
        /\ bt[b].errstr[1] \in {NoCredentialsFmt, NoTokenFmt}
        /\ bt[b].state = state_calloc
        /\ bt[c] = bt_idle

\* The refresh in hand is one that STS answered with an ErrorResponse.
ErrorResponded(m) == m.resp # NULL /\ m.resp.kind = "ErrorResponse"

\* C22: when STS answers with an ErrorResponse, rd_kafka_aws_send_request
\* returns a failure whose error text is the content of Error/Message;
\* nothing is extracted into the credential of the refresh, nothing is
\* installed in the handle, and the failure path restarts the timer to
\* fire again after 10 s.
C22_ErrorResponseFailsRefresh ==
    [][/\ (mt.pc = "sts_request" /\ mt'.pc # "sts_request"
           /\ ErrorResponded(mt'))
          => /\ mt'.ret # RD_KAFKA_RESP_ERR_NO_ERROR
             /\ mt'.resp.message # NULL => mt'.errstr = mt'.resp.message
             /\ mt'.errstr \notin {NULL, Cstr("")}
             /\ mt'.credential = mt.credential
             /\ mt'.credential.aws_access_key_id = NULL
             /\ mt'.credential.aws_secret_access_key = NULL
             /\ mt'.credential.aws_security_token = NULL
             /\ mt'.pc = "set_credential_failure"
       /\ (ErrorResponded(mt) /\ mt' # mt)
          => /\ CredFields(handle') = CredFields(handle)
             /\ installed' = installed
             /\ expires_at' = expires_at
             /\ mt'.pc \in {"set_credential_failure_locked",
                             "set_credential_failure_op_err", "idle"}
       /\ (ErrorResponded(mt) /\ mt.pc = "set_credential_failure_locked"
           /\ mt' # mt)
          => /\ handle'.errstr = mt.errstr
             /\ tmr' = [ started  |-> TRUE,
                         interval |-> FailureRefreshIntervalUs,
                         next     |-> now + FailureRefreshIntervalUs ]]_vars

\* An ErrorResponse has failed a refresh that follows a successful one: the
\* handle has its Message for last error and still the credential
\* installed before, and the timer is set to 10 s.
C22_Witness ==
    /\ ErrorResponded(mt)
    /\ mt.pc = "set_credential_failure_op_err"
    /\ mt.resp.message = Cstr("AccessDenied")
    /\ handle.errstr = Cstr("AccessDenied")
    /\ installed # NULL
    /\ CredFields(handle) = installed
    /\ tmr.interval = FailureRefreshIntervalUs

\* What the configuration c lacks of what the mechanism requires.
LacksRequired(c) ==
    \/ c.aws_access_key_id = NULL
    \/ c.aws_secret_access_key = NULL
    \/ c.aws_region = NULL
    \/ c.enable_use_sts /\ (c.role_arn = NULL \/ c.role_session_name = NULL)

\* C24: the validation of the configuration fails, returning -1 with an
\* error text, exactly when the access key id, the secret access key or
\* the region is unset, or STS is enabled and the role ARN or the role
\* session name is unset; every other configuration is accepted, and only
\* an accepted one goes on to init.
C24_ValidationRejectsExactlyIncomplete ==
    rk_state # "new" =>
        /\ rk_state = "conf_invalid" <=> LacksRequired(conf)
        /\ conf_validate(conf) = -1 <=> LacksRequired(conf)
        /\ conf_validate(conf) = 0 <=> ~LacksRequired(conf)
        /\ conf_validate_errstr(conf) # NULL <=> conf_validate(conf) = -1

\* A configuration with its keys and region, with STS enabled and a role
\* ARN but no role session name, has been rejected.
C24_Witness ==
    /\ rk_state = "conf_invalid"
    /\ conf.enable_use_sts
    /\ conf.aws_access_key_id # NULL
    /\ conf.aws_secret_access_key # NULL
    /\ conf.aws_region # NULL
    /\ conf.role_arn # NULL
    /\ conf.role_session_name = NULL

\* C25: in every state in which the handle can be read, it holds a session
\* token if and only if its credential came from STS: the credential that
\* init loads from the configuration has none, and every credential that
\* set_credential has installed from a response of STS (with its access key,
\* secret and region) has one.
C25_TokenIffFromSts ==
    (/\ handle # NULL
     /\ ~lock.writer
     /\ installed # NULL => /\ installed.aws_access_key_id # NULL
                            /\ installed.aws_secret_access_key # NULL
                            /\ installed.aws_region # NULL)
    => (handle.aws_security_token # NULL <=> installed # NULL)

\* The same for the credentials whose response had every child of
\* Credentials: the statement fails through the others only.
C25_TokenIffFromCompleteSts ==
    (/\ handle # NULL
     /\ ~lock.writer
     /\ installed # NULL => Complete(installed))
    => (handle.aws_security_token # NULL <=> installed # NULL)

\* A step of the main thread in set_credential_failure, under the write
\* lock: a failure of the refresh is recorded.
FailureStep == mt.pc = "set_credential_failure_locked" /\ mt' # mt

\* C26: the handle's last error is absent exactly when no failure of a
\* refresh has been recorded since the latest install, or since init.  Init
\* leaves it absent; each recorded failure leaves it present; each install
\* clears it in the step that completes the new credential and releases
\* the write lock taken before the first field was written, so that no
\* reader finds the new credential beside an error from before; and no
\* other step touches it.
C26_ErrorAbsentIffNoFailureSinceInstall ==
    [][/\ (rk_state = "validated" /\ rk_state' = "running")
          => handle'.errstr = NULL
       /\ FailureStep
          => /\ handle'.errstr # NULL
             /\ handle'.errstr = mt.errstr
             /\ lock.writer /\ ~lock'.writer
       /\ InstallStep
          => /\ handle'.errstr = NULL
             /\ CredFields(handle') = CredFields(mt.credential)
             /\ lock.writer /\ ~lock'.writer
       /\ (mt.pc = "set_credential_write" /\ mt'.pc = "set_credential_locked")
          => lock.writer /\ lock'.writer
       /\ (handle # NULL /\ handle' # NULL /\ handle'.errstr # handle.errstr)
          => FailureStep \/ InstallStep]_vars

\* An install has just cleared the error that an earlier failure of the
\* refresh had recorded and reported.
C26_Witness ==
    /\ mt.pc = "set_credential_wakeup"
    /\ handle.errstr = NULL
    /\ installed # NULL
    /\ CredFields(handle) = installed
    /\ op_err.err = RD_KAFKA_RESP_ERR__AUTHENTICATION

\* C33: the thread that has the STS request in flight, that emits the
\* error event or that wakes the brokers does not hold the write lock, and
\* the thread that sends the payload on the socket of its broker does not
\* hold the read lock.
C33_NoLockAcrossIo ==
    /\ mt.pc \in {"sts_request", "set_credential_wakeup",
                  "set_credential_failure_op_err"} => ~lock.writer
    /\ \A b \in Brokers :
           bt[b].pc = "client_new_fsm" => b \notin lock.readers

\* The STS request is in flight while a broker thread is about to send its
\* payload and another reads the store.
C33_Witness ==
    /\ mt.pc = "sts_request"
    /\ \E b \in Brokers : bt[b].pc = "client_new_fsm"
    /\ lock.readers # {}

\* The Expiration of the response gives an expiry.
ExpirationParsed(resp) ==
    /\ Has(resp, "Expiration")
    /\ resp.expiration # "unparseable"
    /\ ExpirationEpochSec(resp) > 0

\* C35: refresh0 sets the expiry to now + duration_sec * 1000 ms before the
\* request; when the request succeeds, the expiry handed to set_credential
\* is that of the Expiration if it gives one, else the one set before; a
\* response whose Credentials lack nothing but the Expiration, or have one
\* that does not parse, succeeds.
C35_ExpiryParsedOrComputedBefore ==
    [][ /\ (mt.pc = "refresh0_locked" /\ mt'.pc = "sts_request") =>
               mt'.credential.md_lifetime_ms
                   = now \div UsPerMs + conf.duration_sec * MsPerSec
        /\ (mt.pc = "sts_request" /\ mt'.pc = "set_credential") =>
               mt'.credential.md_lifetime_ms
                   = IF ExpirationParsed(mt'.resp)
                     THEN ExpirationEpochSec(mt'.resp) * MsPerSec
                     ELSE mt.credential.md_lifetime_ms
        /\ (/\ mt.pc = "sts_request"
            /\ mt'.pc # "sts_request"
            /\ mt'.resp.kind = "AssumeRoleResponse"
            /\ mt'.resp.missing \in {"none", "Expiration"}) =>
               /\ mt'.ret = RD_KAFKA_RESP_ERR_NO_ERROR
               /\ mt'.pc = "set_credential"
      ]_vars

\* A credential whose response had no Expiration has been installed, with
\* the expiry computed before the request.
C35_Witness ==
    /\ mt.pc = "set_credential_wakeup"
    /\ mt.resp.missing = "Expiration"
    /\ expires_at = mt.credential.md_lifetime_ms * UsPerMs
    /\ installed # NULL

\* C36: the request to STS that is in flight is signed with the access
\* key, the secret and the region of the configuration, and the credential
\* last installed has the region of the configuration.
C36_StsSignedWithConfiguredCredential ==
    /\ mt.pc = "sts_request" =>
           /\ mt.signing.aws_access_key_id = conf.aws_access_key_id
           /\ mt.signing.aws_secret_access_key = conf.aws_secret_access_key
           /\ mt.signing.aws_region = conf.aws_region
    /\ installed # NULL => installed.aws_region = conf.aws_region

\* A later request is in flight while the store holds the temporary
\* credential of an earlier one.
C36_Witness ==
    /\ mt.pc = "sts_request"
    /\ installed # NULL
    /\ handle.aws_security_token # NULL
    /\ handle.aws_access_key_id # conf.aws_access_key_id

\* C37: a failure that is recorded emits an error event unless the failure
\* last recorded since the last install had the same text: the same text
\* twice with no install in between emits nothing the second time, the
\* same text after an install emits again.
C37_InstallResetsDebounce ==
    [][ /\ (/\ mt.pc = "set_credential_failure_locked"
            /\ mt'.pc = "set_credential_failure_op_err") =>
               (mt'.error_changed
                    <=> (failed_since = NULL \/ failed_since # mt.errstr))
        /\ (mt.pc = "set_credential_failure_op_err" /\ mt'.pc = "idle") =>
               ((op_err' # op_err) <=> mt.error_changed)
      ]_vars

\* The failure being recorded has the text of the event last emitted, an
\* install has come in between, and it is about to be emitted again.
C37_Witness ==
    /\ mt.pc = "set_credential_failure_op_err"
    /\ mt.error_changed
    /\ installed # NULL
    /\ op_err.seq = 1
    /\ op_err.errstr[2] = mt.errstr

\* C38: in a client that uses STS with a duration_sec that is not positive,
\* the refresh timer is never started, no refresh runs, the store holds no
\* session token, and no client_new gets past its checks: each fails with
\* the error of the missing token.
C38_NoRefreshWithoutDuration ==
    (/\ rk_state = "running"
     /\ conf.enable_use_sts
     /\ conf.duration_sec <= 0) =>
        /\ ~tmr.started
        /\ mt.pc = "idle"
        /\ handle.aws_security_token = NULL
        /\ installed = NULL
        /\ \A b \in Brokers :
               /\ bt[b].pc \in {"idle", "client_new_locked", "failed"}
               /\ bt[b].pc = "failed" =>
                      /\ bt[b].ret = -1
                      /\ bt[b].errstr
                             = << "AWS_MSK_IAM_STS cannot authenticate; last error: %s",
                                  Cstr("(not available)") >>

\* Such a client has been running for a while, and a client_new has failed.
C38_Witness ==
    /\ rk_state = "running"
    /\ conf.enable_use_sts
    /\ conf.duration_sec <= 0
    /\ conf_validate(conf) = 0
    /\ now > T0
    /\ \E b \in Brokers : bt[b].pc = "failed"

\* The positions of the main thread between rwlock_wrlock and
\* rwlock_wrunlock.
WriteLocked ==
    {"refresh0_locked", "set_credential_write", "set_credential_locked",
     "set_credential_failure_locked"}

\* C39: the write lock is held exactly while the main thread is between the
\* lock and the unlock of refresh0, set_credential or
\* set_credential_failure, and the read lock exactly by the broker threads
\* that are between the lock and the unlock of client_new; once an
\* operation has returned its thread holds nothing, and in a running client
\* the thread that holds the lock can take its next step.
C39_LockReleasedOnEveryReturn ==
    /\ lock.writer <=> mt.pc \in WriteLocked
    /\ lock.readers = {b \in Brokers : bt[b].pc = "client_new_locked"}
    /\ (lock.writer /\ rk_state = "running") =>
           ENABLED (\/ credential_refresh0_send
                    \/ set_credential_write
                    \/ set_credential_locked
                    \/ set_credential_failure_locked)
    /\ \A b \in lock.readers :
           rk_state = "running" => ENABLED client_new_locked(b)

\* A client_new has returned -1 and another has succeeded, the main thread
\* has returned from an install, and the lock is free.
C39_Witness ==
    /\ lock = [writer |-> FALSE, readers |-> {}]
    /\ mt.pc = "idle"
    /\ installed # NULL
    /\ \E b \in Brokers : bt[b].pc = "failed" /\ bt[b].sends = 0
    /\ \E b \in Brokers : bt[b].pc \in {"await", "authenticated"}

\* C40: from the install of a credential with an access key, a secret and
\* a region until the next install, the store holds that credential
\* whenever no write is under way, whatever failures are recorded and
\* whether or not its expiry has passed, and every client_new succeeds with
\* a copy of it.
C40_InstalledCredentialServedUntilReplaced ==
    [][ (/\ installed # NULL
         /\ installed.aws_access_key_id # NULL
         /\ installed.aws_secret_access_key # NULL
         /\ installed.aws_region # NULL) =>
            /\ (installed' = installed /\ ~lock'.writer) =>
                   CredFields(handle') = installed
            /\ \A b \in Brokers :
                   (/\ bt[b].pc = "client_new_locked"
                    /\ bt'[b].pc # "client_new_locked") =>
                       /\ bt'[b].pc = "client_new_fsm"
                       /\ CredFields(bt'[b].state) = installed
      ]_vars

\* What holds: a credential that was installed with its session token is
\* held and served in this way.
C40_CompleteCredentialServedUntilReplaced ==
    [][ (installed # NULL /\ Complete(installed)) =>
            /\ (installed' = installed /\ ~lock'.writer) =>
                   CredFields(handle') = installed
            /\ \A b \in Brokers :
                   (/\ bt[b].pc = "client_new_locked"
                    /\ bt'[b].pc # "client_new_locked") =>
                       /\ bt'[b].pc = "client_new_fsm"
                       /\ CredFields(bt'[b].state) = installed
      ]_vars

\* No client_new succeeds with a credential whose expiry has passed and
\* after which a failure was recorded: a statement that fails, as the store
\* checks no expiry.
C40_NoSnapshotPastExpiry ==
    \A b \in Brokers :
        ~(/\ bt[b].pc = "client_new_fsm"
          /\ installed # NULL
          /\ CredFields(bt[b].state) = installed
          /\ failed_since # NULL
          /\ now > expires_at)

(* ------------------------------------------------------------------ *)
(* The refresh and the teardown of the client                          *)
(* ------------------------------------------------------------------ *)

\* The main thread with its timer and the thread that tears the client
\* down; the connections are closed by their broker threads beforehand.
NextTerm ==
    \/ ConfValidate
    \/ init
    \/ Tick
    \/ credential_refresh_tmr_cb
    \/ credential_refresh0_wrlock
    \/ credential_refresh0_send
    \/ credential_refresh0_return
    \/ set_credential_enter
    \/ set_credential_write
    \/ set_credential_locked
    \/ set_credential_wakeup
    \/ set_credential_failure_wrlock
    \/ set_credential_failure_locked
    \/ set_credential_failure_op_err
    \/ term_detach
    \/ term_timer_stop
    \/ term_free

SpecTerm == Init /\ [][NextTerm]_vars

\* The positions of the refresh whose next step goes through the pointer
\* to the handle that the function in hand has read.
UsesHandle ==
    { "refresh0", "refresh0_locked", "set_credential_write",
      "set_credential_locked", "set_credential_failure_locked" }

\* C23: in every interleaving of term with a fire of the refresh timer, no
\* step of the refresh runs against a handle that term has detached or
\* freed: whenever the refresh is about to lock, write or unlock the
\* handle, the pointer it has read is a handle and that handle is still
\* allocated.
C23_RefreshNeverOnDetachedStore ==
    mt.pc \in UsesHandle => (mt.handle # NULL /\ handle # NULL)

(* ------------------------------------------------------------------ *)
(* The functions of rdkafka_aws.c on their own                         *)
(* ------------------------------------------------------------------ *)

\* Dates of signing: ymd and hms.
AwsDates ==
    { [ymd |-> <<"20100101">>, hms |-> <<"000000">>],
      [ymd |-> <<"20210910">>, hms |-> <<"190714">>] }

AwsAccessKeyIds == { <<"AWS_ACCESS_KEY_ID">>, <<"ASIA", "+", "KEY">> }

AwsRegions == { <<"us-east-1">>, <<"eu-west-1">> }

\* Session tokens: none, the empty one, a plain one, and one with
\* characters that mean something in a query string.
AwsSecurityTokens ==
    { NULL, Cstr(""), <<"security-token">>,
      <<"to", "/", "k", "+", "en", "&", "X-Amz-SignedHeaders", "=", "x">> }

AwsHostnames == { <<"hostname">>, <<"b-1.msk.amazonaws.com">> }

\* The calls of rd_kafka_aws_build_sasl_canonical_querystring.
QuerystringCalls ==
    { [ fn |-> "rd_kafka_aws_build_sasl_canonical_querystring",
        pc |-> "call", passed |-> NULL, ret |-> NULL,
        args |-> [ action |-> <<"kafka-cluster", ":", "Connect">>,
                   aws_access_key_id |-> k, aws_region |-> r,
                   ymd |-> d.ymd, hms |-> d.hms,
                   aws_service |-> <<"kafka-cluster">>,
                   aws_security_token |-> t ] ]
        : k \in AwsAccessKeyIds, r \in AwsRegions, d \in AwsDates,
          t \in AwsSecurityTokens }

\* The calls of rd_kafka_aws_build_canonical_request that the unit tests
\* make: the last line of the headers has no newline.
UnittestCalls ==
    { [ fn |-> "rd_kafka_aws_build_canonical_request",
        pc |-> "call", passed |-> NULL, ret |-> NULL,
        args |-> [ method |-> <<"GET">>,
                   canonical_query_string |->
                       rd_kafka_aws_build_sasl_canonical_querystring(
                           <<"kafka-cluster", ":", "Connect">>,
                           <<"AWS_ACCESS_KEY_ID">>, <<"us-east-1">>,
                           <<"20100101">>, <<"000000">>,
                           <<"kafka-cluster">>, t),
                   canonical_headers |-> <<"host", ":", "hostname">>,
                   signed_headers |-> <<"host">>,
                   request_parameters |-> Cstr("") ] ]
        : t \in {NULL, <<"security-token">>} }
    \cup
    { [ fn |-> "rd_kafka_aws_build_canonical_request",
        pc |-> "call", passed |-> NULL, ret |-> NULL,
        args |-> [ method |-> <<"POST">>,
                   canonical_query_string |-> Cstr(""),
                   canonical_headers |->
                       <<"content-length", ":", "171", "\n",
                         "content-type", ":",
                         "application/x-www-form-urlencoded; charset=utf-8",
                         "\n",
                         "host", ":", "sts.amazonaws.com", "\n",
                         "x-amz-date", ":", "20210910T190714Z">>,
                   signed_headers |->
                       <<"content-length", ";", "content-type", ";",
                         "host", ";", "x-amz-date">>,
                   request_parameters |->
                       <<"Action", "=", "AssumeRole", "&",
                         "DurationSeconds", "=", "900">> ] ] }

\* The calls of build_client_first_message, each with the state of a
\* connection.
ClientFirstMessageCalls ==
    { [ fn |-> "rd_kafka_sasl_aws_msk_iam_build_client_first_message",
        pc |-> "call", passed |-> NULL, ret |-> NULL,
        args |-> [ state |-> [ hostname |-> h,
                               aws_access_key_id |-> k,
                               aws_region |-> <<"us-east-1">>,
                               aws_security_token |-> t ],
                   ymd |-> d.ymd, hms |-> d.hms ] ]
        : h \in AwsHostnames, k \in AwsAccessKeyIds, d \in AwsDates,
          t \in AwsSecurityTokens }

\* The calls of credential_refresh0, each with a configuration.
Refresh0Calls ==
    { [ fn |-> "rd_kafka_aws_msk_iam_credential_refresh0",
        pc |-> "call", passed |-> NULL, ret |-> NULL,
        args |-> [ conf |-> [ duration_sec |-> n,
                              role_arn |->
                                  <<"arn", ":", "aws", ":", "iam", ":", ":",
                                    "1", ":", "role", "/", "R">>,
                              role_session_name |-> <<"librdkafka_session">>,
                              aws_external_id |-> x ],
                   ymd |-> d.ymd, hms |-> d.hms ] ]
        : n \in {900, 3600},
          x \in {NULL, <<"ext", "/", "1">>}, d \in AwsDates }

\* The contents of an Expiration element: dates early in 1970, so that the
\* milliseconds stay small, with and without a fraction of a second, and a
\* content that is not a date.
ExpirationContents ==
    { [ matches |-> TRUE, year |-> 1970, mon |-> 1, mday |-> d,
        hour |-> h, min |-> mi, sec |-> se, msec |-> ms ]
        : d \in {1, 2, 15}, h \in {0, 4, 23}, mi \in {0, 30},
          se \in {0, 59}, ms \in {0, 500} }
    \cup
    { [ matches |-> FALSE, year |-> 0, mon |-> 0, mday |-> 0,
        hour |-> 0, min |-> 0, sec |-> 0, msec |-> 0 ] }

\* The zones of the process, in seconds east of UTC: UTC, one hour east,
\* five hours west.
GmtOffsets == {0, 3600, -18000}

\* The responses whose Expiration is gone through, md_lifetime_ms being
\* what credential_refresh0 put before the request.
ExpirationCalls ==
    { [ fn |-> "Expiration", pc |-> "call", passed |-> NULL, ret |-> NULL,
        args |-> [ md_lifetime_ms |-> 900 * 1000, content |-> c,
                   gmtoff |-> z ] ]
        : c \in ExpirationContents, z \in GmtOffsets }

AwsSecretAccessKeys == { <<"AWS_SECRET_ACCESS_KEY">>, <<"TESTSECRET">> }

\* The strings that are signed in the calls of rd_kafka_aws_build_signature.
StringsToSign ==
    { rd_kafka_aws_build_string_to_sign(
          <<"AWS4-HMAC-SHA256">>,
          rd_kafka_aws_construct_credential_scope(
              <<"20100101">>, <<"us-east-1">>, <<"kafka-cluster">>),
          rd_kafka_aws_construct_amz_date(<<"20100101">>, <<"000000">>),
          rd_kafka_aws_build_canonical_request(
              c.args.method, c.args.canonical_query_string,
              c.args.canonical_headers, c.args.signed_headers,
              c.args.request_parameters)) : c \in UnittestCalls }

\* The calls of rd_kafka_aws_build_signature.
SignatureCalls ==
    { [ fn |-> "rd_kafka_aws_build_signature",
        pc |-> "call", passed |-> NULL, ret |-> NULL,
        args |-> [ aws_secret_access_key |-> k, aws_region |-> r,
                   ymd |-> d.ymd,
                   aws_service |-> v, string_to_sign |-> t ] ]
        : k \in AwsSecretAccessKeys, r \in AwsRegions, d \in AwsDates,
          v \in {<<"kafka-cluster">>, <<"sts">>}, t \in StringsToSign }

\* The calls of rd_kafka_aws_build_sasl_payload, each with the state of a
\* connection.
SaslPayloadCalls ==
    { [ fn |-> "rd_kafka_aws_build_sasl_payload",
        pc |-> "call", passed |-> NULL, ret |-> NULL,
        args |-> [ state |-> [ hostname |-> h,
                               aws_access_key_id |-> k,
                               aws_secret_access_key |->
                                   <<"AWS_SECRET_ACCESS_KEY">>,
                               aws_region |-> <<"us-east-1">>,
                               aws_security_token |-> t ],
                   ymd |-> d.ymd, hms |-> d.hms ] ]
        : h \in AwsHostnames, k \in AwsAccessKeyIds, d \in AwsDates,
          t \in AwsSecurityTokens }

AwsCalls ==
    QuerystringCalls \cup UnittestCalls \cup ClientFirstMessageCalls
        \cup Refresh0Calls \cup ExpirationCalls \cup SignatureCalls
        \cup SaslPayloadCalls

\* No client: one call of one function.
InitAws ==
    /\ conf \in {c \in ConfSet : conf_validate(c) = 0 /\ ~c.enable_use_sts}
    /\ rk_state = "new"
    /\ now = T0
    /\ handle = NULL
    /\ lock = [writer |-> FALSE, readers |-> {}]
    /\ tmr = [started |-> FALSE, interval |-> 0, next |-> 0]
    /\ mt = mt_idle
    /\ bt = [b \in Brokers |-> bt_idle]
    /\ op_err = [seq |-> 0, err |-> RD_KAFKA_RESP_ERR_NO_ERROR, errstr |-> NULL]
    /\ wakeup_seq = 0
    /\ expires_at = 0
    /\ installed = NULL
    /\ rk_sasl_handle = NULL
    /\ tt = tt_idle
    /\ aws \in AwsCalls
    /\ libxml2 = NULL
    /\ failed_since = NULL

NextAws ==
    \/ build_sasl_canonical_querystring_call
    \/ build_canonical_request_call
    \/ expiration_call
    \/ build_signature_call
    \/ build_sasl_payload_call

SpecAws == InitAws /\ [][NextAws]_vars

\* The parts of the string s between the pieces equal to sep.
RECURSIVE SplitOn(_, _)
SplitOn(s, sep) ==
    IF \A i \in 1..Len(s) : s[i] # sep
    THEN <<s>>
    ELSE LET i == CHOOSE k \in 1..Len(s) :
                      s[k] = sep /\ \A j \in 1..(k - 1) : s[j] # sep
         IN <<SubSeq(s, 1, i - 1)>> \o SplitOn(SubSeq(s, i + 1, Len(s)), sep)

\* The string t is a part of the string s.
Contains(s, t) ==
    \E i \in 0..(Len(s) - Len(t)) : SubSeq(s, i + 1, i + Len(t)) = t

Returned(fns) == aws # NULL /\ aws.pc = "return" /\ aws.fn \in fns

\* C27: once the Expiration of a response has been gone through and its
\* content is a date after the epoch, md_lifetime_ms is the milliseconds
\* from the epoch to that date read as UTC, whatever the zone of the
\* process.
C27_ExpirationIsUtcInAnyZone ==
    (/\ Returned({"Expiration"})
     /\ aws.args.content.matches
     /\ timegm(sscanf_expiration(aws.args.content)) > 0)
        => aws.ret = timegm(sscanf_expiration(aws.args.content)) * 1000

\* In a process whose zone is UTC the date is read as UTC, unless it is the
\* epoch itself.
C27_UtcProcessReadsUtc ==
    (/\ Returned({"Expiration"})
     /\ aws.args.content.matches
     /\ aws.args.gmtoff = 0
     /\ timegm(sscanf_expiration(aws.args.content)) > 0)
        => aws.ret = timegm(sscanf_expiration(aws.args.content)) * 1000

CanonicalRequestCallers ==
    { "rd_kafka_aws_build_canonical_request",
      "rd_kafka_sasl_aws_msk_iam_build_client_first_message",
      "rd_kafka_aws_msk_iam_credential_refresh0" }

\* The names of the header lines of the string headers, "name:value" each.
HeaderNames(lines) == [i \in 1..Len(lines) |-> lines[i][1]]

\* C28: the lines of a canonical request are the method, "/", the canonical
\* query string, the lines of canonical_headers, the signed headers and the
\* hash of the body, in that order; the two callers of the client pass
\* headers made of newline-terminated "name:value" lines, named as the
\* signed headers say, and the STS request an empty query string.
C28_CanonicalRequestLayout ==
    Returned(CanonicalRequestCallers) =>
        LET a == aws.passed
            headerLines == SplitOn(a.canonical_headers, "\n")
        IN /\ SplitOn(aws.ret, "\n")
                  = <<a.method, <<"/">>, a.canonical_query_string>>
                    \o headerLines
                    \o <<a.signed_headers,
                         sha256_hex(a.request_parameters)>>
           /\ aws.fn # "rd_kafka_aws_build_canonical_request" =>
                  /\ headerLines[Len(headerLines)] = <<>>
                  /\ \A i \in 1..(Len(headerLines) - 1) :
                         /\ Len(headerLines[i]) >= 3
                         /\ headerLines[i][2] = ":"
                  /\ HeaderNames(SubSeq(headerLines, 1, Len(headerLines) - 1))
                         = [i \in 1..(Len(headerLines) - 1) |->
                                SplitOn(a.signed_headers, ";")[i][1]]
           /\ aws.fn = "rd_kafka_aws_msk_iam_credential_refresh0" =>
                  a.canonical_query_string = Cstr("")

\* The STS request has been built, with an external id in its body.
C28_Witness ==
    /\ Returned({"rd_kafka_aws_msk_iam_credential_refresh0"})
    /\ aws.args.conf.aws_external_id # NULL
    /\ Len(SplitOn(aws.ret, "\n")) = 10

\* C29: with canonical_headers whose last line has no newline, the canonical
\* request has canonical_headers, an empty line, the signed headers and the
\* hash of the body.
C29_EmptyLineAfterUnterminatedHeaders ==
    (/\ Returned({"rd_kafka_aws_build_canonical_request"})
     /\ aws.passed.canonical_headers[Len(aws.passed.canonical_headers)]
            # "\n")
        => Contains(aws.ret,
                    aws.passed.canonical_headers \o <<"\n", "\n">>
                        \o aws.passed.signed_headers \o <<"\n">>
                        \o sha256_hex(aws.passed.request_parameters))

\* What the function does with such headers: one newline, no empty line.
C29_OneNewlineAfterUnterminatedHeaders ==
    (/\ Returned({"rd_kafka_aws_build_canonical_request"})
     /\ aws.passed.canonical_headers[Len(aws.passed.canonical_headers)]
            # "\n")
        => Contains(aws.ret,
                    aws.passed.canonical_headers \o <<"\n">>
                        \o aws.passed.signed_headers \o <<"\n">>
                        \o sha256_hex(aws.passed.request_parameters))

QuerystringNames(with_token) ==
    <<"Action", "X-Amz-Algorithm", "X-Amz-Credential", "X-Amz-Date",
      "X-Amz-Expires">>
        \o (IF with_token THEN <<"X-Amz-Security-Token">> ELSE <<>>)
        \o <<"X-Amz-SignedHeaders">>

\* C30: the canonical query string is name=value pairs joined by "&", named
\* Action, X-Amz-Algorithm, X-Amz-Credential, X-Amz-Date, X-Amz-Expires,
\* X-Amz-Security-Token if and only if a token was passed, and
\* X-Amz-SignedHeaders, in that order; X-Amz-Expires is 900 and
\* X-Amz-SignedHeaders is host, after which nothing follows.
C30_QuerystringPairsInFixedOrder ==
    Returned({"rd_kafka_aws_build_sasl_canonical_querystring"}) =>
        LET pairs == SplitOn(aws.ret, "&")
        IN /\ \A i \in 1..Len(pairs) :
                  /\ Len(pairs[i]) >= 3
                  /\ pairs[i][2] = "="
                  /\ \A j \in 3..Len(pairs[i]) : pairs[i][j] # "="
           /\ HeaderNames(pairs)
                  = QuerystringNames(aws.args.aws_security_token # NULL)
           /\ pairs[5] = <<"X-Amz-Expires", "=", "900">>
           /\ pairs[Len(pairs)] = <<"X-Amz-SignedHeaders", "=", "host">>

\* A query string has been built with a token that holds "&" and "=".
C30_Witness ==
    /\ Returned({"rd_kafka_aws_build_sasl_canonical_querystring"})
    /\ aws.args.aws_security_token # NULL
    /\ \E i \in 1..Len(aws.args.aws_security_token) :
           aws.args.aws_security_token[i] = "&"
    /\ Len(SplitOn(aws.ret, "&")) = 7

PayloadNames(with_token) ==
    <<"version", "host", "user-agent", "action", "x-amz-algorithm",
      "x-amz-credential", "x-amz-date">>
        \o (IF with_token THEN <<"x-amz-security-token">> ELSE <<>>)
        \o <<"x-amz-signedheaders", "x-amz-expires", "x-amz-signature">>

\* C31: the payload of an attempt has the field "x-amz-security-token" if
\* and only if the state of the connection has a token, between
\* "x-amz-date" and "x-amz-signedheaders", with the token as it is; the
\* query string signed in the same attempt has the token URI-encoded.
C31_PayloadTokenRawQuerystringEncoded ==
    Returned({"rd_kafka_aws_build_sasl_payload"}) =>
        LET fields == SplitOn(aws.ret, ",")
            pairs  == SplitOn(aws.passed.canonical_query_string, "&")
            token  == aws.args.state.aws_security_token
        IN /\ [i \in 1..Len(fields) |->
                   fields[i][IF i = 1 THEN 3 ELSE 2]]
                  = PayloadNames(token # NULL)
           /\ token # NULL =>
                  /\ fields[8] = json_field("x-amz-security-token", token)
                  /\ pairs[6] = <<"X-Amz-Security-Token", "=">>
                                    \o rd_kafka_aws_uri_encode(token)
           /\ token = NULL =>
                  \A i \in 1..Len(pairs) :
                      pairs[i][1] # "X-Amz-Security-Token"

\* A payload has been built with a token that URI encoding changes.
C31_Witness ==
    /\ Returned({"rd_kafka_aws_build_sasl_payload"})
    /\ aws.args.state.aws_security_token # NULL
    /\ rd_kafka_aws_uri_encode(aws.args.state.aws_security_token)
           # aws.args.state.aws_security_token
    /\ Len(SplitOn(aws.ret, ",")) = 11

InitXml ==
    /\ conf \in {c \in ConfSet : conf_validate(c) = 0 /\ c.enable_use_sts
                                 /\ c.duration_sec > 0}
    /\ rk_state = "new"
    /\ now = T0
    /\ handle = NULL
    /\ lock = [writer |-> FALSE, readers |-> {}]
    /\ tmr = [started |-> FALSE, interval |-> 0, next |-> 0]
    /\ mt = mt_idle
    /\ bt = [b \in Brokers |-> bt_idle]
    /\ op_err = [seq |-> 0, err |-> RD_KAFKA_RESP_ERR_NO_ERROR, errstr |-> NULL]
    /\ wakeup_seq = 0
    /\ expires_at = 0
    /\ installed = NULL
    /\ rk_sasl_handle = NULL
    /\ tt = tt_idle
    /\ aws = NULL
    /\ libxml2 = [ has_been_called |-> 0,
                   libxml2_lock |-> [initialized |-> FALSE, owners |-> {}],
                   inits |-> 0,
                   thr |-> [t \in Threads |->
                              [ pc |-> "curl_easy_perform",
                                document |-> "unparseable",
                                exit |-> 0 ]] ]
    /\ failed_since = NULL

NextXml ==
    \E t \in Threads :
        \/ curl_easy_perform(t)
        \/ exchange(t)
        \/ mtx_init(t)
        \/ mtx_lock(t)
        \/ parse(t)
        \/ mtx_unlock(t)

SpecXml == InitXml /\ [][NextXml]_vars

InSection == {"parse", "done_libxml2"}

\* C34: a thread that is at mtx_lock finds the mutex initialized, at most
\* one thread is in the parsing section, the mutex has been initialized at
\* most once, and a thread that has left the section does not hold it.
C34_ParsingSerialized ==
    /\ \A t \in Threads :
           libxml2.thr[t].pc = "mtx_lock" => libxml2.libxml2_lock.initialized
    /\ Cardinality({t \in Threads : libxml2.thr[t].pc \in InSection}) <= 1
    /\ libxml2.inits <= 1
    /\ \A t \in Threads :
           libxml2.thr[t].pc = "returned" => t \notin libxml2.libxml2_lock.owners

\* What holds of the section: mtx_init runs at most once, and every exit
\* unlocks, so that a thread that has returned does not hold the mutex.
C34_InitOnceAndEveryExitUnlocks ==
    /\ libxml2.inits <= 1
    /\ \A t \in Threads :
           libxml2.thr[t].pc = "returned" => t \notin libxml2.libxml2_lock.owners

\* What fails: a thread is at mtx_lock while the mutex is not initialized.
C34_LockBeforeInit ==
    \A t \in Threads :
        libxml2.thr[t].pc = "mtx_lock" => libxml2.libxml2_lock.initialized

\* What fails: two threads are in the parsing section.
C34_OneInSection ==
    Cardinality({t \in Threads : libxml2.thr[t].pc \in InSection}) <= 1

====
